---- MODULE Spec2Model ----
(***************************************************************************)
(* State-machine model of the data-quality pipeline of data-processing/:   *)
(* the Raw->Curated stage (processors/raw_to_curated.py), the compliance   *)
(* masker (validators/compliance_checker.py), the validators and the retry *)
(* policy (tests/test_retry_logic.py).                                     *)
(*                                                                         *)
(* A string is a sequence of one-character strings.  A batch (DataFrame)   *)
(* is a record [cols, dtypes, rows]: the set of column names, the dtype of *)
(* each column and the sequence of rows, each row a function from cols.    *)
(***************************************************************************)
EXTENDS Integers, Sequences, FiniteSets, TLC

VARIABLES
    m_pc, m_df, m_once, m_twice, m_cfg,
    d_pc, d_df, d_table, d_out,
    r_pc, r_max_retries, r_initial_delay, r_backoff_factor, r_attempt,
    r_delay, r_trace, r_sleeps, r_result, r_error,
    s_pc, s_cfg, s_bucket, s_key, s_metadata, s_raw, s_df, s_schema_result,
    s_business_result, s_compliance_result, s_dedup_count, s_writes, s_result,
    s_io,
    v_pc, v_result, v_last,
    x_pc, x_df, x_schema, x_result,
    b_pc, b_df, b_table, b_result, b_after,
    p_pc, p_cfg, p_bucket, p_key, p_metadata, p_raw, p_df, p_now, p_writes,
    p_glue, p_result, p_run,
    k_pc, k_fields, k_key, k_metadata, k_target,
    c_pc, c_df, c_cfg, c_result,
    h_pc, h_event, h_type, h_response,
    w_pc, w_cfg, w_key, w_raw, w_df, w_puts, w_quarantine

mvars == <<m_pc, m_df, m_once, m_twice, m_cfg>>
dvars == <<d_pc, d_df, d_table, d_out>>
rvars == <<r_pc, r_max_retries, r_initial_delay, r_backoff_factor, r_attempt,
           r_delay, r_trace, r_sleeps, r_result, r_error>>
svars == <<s_pc, s_cfg, s_bucket, s_key, s_metadata, s_raw, s_df,
           s_schema_result, s_business_result, s_compliance_result,
           s_dedup_count, s_writes, s_result, s_io>>
vvars == <<v_pc, v_result, v_last>>
xvars == <<x_pc, x_df, x_schema, x_result>>
bvars == <<b_pc, b_df, b_table, b_result, b_after>>
pvars == <<p_pc, p_cfg, p_bucket, p_key, p_metadata, p_raw, p_df, p_now,
           p_writes, p_glue, p_result, p_run>>
kvars == <<k_pc, k_fields, k_key, k_metadata, k_target>>
cvars == <<c_pc, c_df, c_cfg, c_result>>
hvars == <<h_pc, h_event, h_type, h_response>>
wvars == <<w_pc, w_cfg, w_key, w_raw, w_df, w_puts, w_quarantine>>
uvars == <<vvars, xvars, bvars, pvars, kvars, cvars, hvars, wvars>>
notv == <<xvars, bvars, pvars, kvars, cvars, hvars, wvars>>
notx == <<vvars, bvars, pvars, kvars, cvars, hvars, wvars>>
notb == <<vvars, xvars, pvars, kvars, cvars, hvars, wvars>>
notp == <<vvars, xvars, bvars, kvars, cvars, hvars, wvars>>
notk == <<vvars, xvars, bvars, pvars, cvars, hvars, wvars>>
notc == <<vvars, xvars, bvars, pvars, kvars, hvars, wvars>>
noth == <<vvars, xvars, bvars, pvars, kvars, cvars, wvars>>
notw == <<vvars, xvars, bvars, pvars, kvars, cvars, hvars>>
vars == <<mvars, dvars, rvars, svars, uvars>>

----------------------------------------------------------------------------
(* Bounds of the model *)

MaxMaskRows == 2
MaxDedupRows == 3
MaxRetries == 4
MaxStageRows == 2
MaxCalls == 4
MaxSchemaRows == 2
MaxBusinessRows == 2
MaxProdRows == 2
MaxRuns == 2
MaxComplianceRows == 2
MaxHandlerRows == 1
MaxConcurrentRows == 2

----------------------------------------------------------------------------
(* Strings *)

DigitChars == {"0", "1", "2", "3", "4", "5", "6", "7", "8", "9"}

Rep(c, n) == [i \in 1..n |-> c]

\* A missing value (None / NaN): no string has a several-character element.
Null == <<"NULL">>

isna(value) == value = Null

AllDigits(s) == \A i \in 1..Len(s) : s[i] \in DigitChars

\* str(value).replace(' ', '').replace('-', '')
StripSeparators(s) == SelectSeq(s, LAMBDA c : c # " " /\ c # "-")

\* s[-4:]
LastFour(s) == IF Len(s) <= 4 THEN s ELSE SubSeq(s, Len(s) - 3, Len(s))

\* needle in hay
Contains(hay, needle) ==
    \E i \in 0..(Len(hay) - Len(needle)) :
        SubSeq(hay, i + 1, i + Len(needle)) = needle

MinCardDigits == 13
MaxCardDigits == 19
MaskChar == "*"

\* re.match(r'^\d{13,19}$', s): in Python '$' also matches just before a
\* trailing newline.
cc_pattern_match(s) ==
    LET body == IF Len(s) > 0 /\ s[Len(s)] = "\n"
                THEN SubSeq(s, 1, Len(s) - 1) ELSE s
    IN  /\ Len(body) >= MinCardDigits
        /\ Len(body) <= MaxCardDigits
        /\ AllDigits(body)

----------------------------------------------------------------------------
(* ComplianceChecker *)

credit_card_columns == {"card_number", "credit_card", "cc_number", "payment_card"}
cvv_columns == {"cvv", "cvv2", "cvc", "security_code"}

\* ComplianceChecker._mask_credit_card
mask_credit_card(value) ==
    IF isna(value) THEN value
    ELSE LET value_str == StripSeparators(value)
         IN  IF cc_pattern_match(value_str)
             THEN Rep(MaskChar, Len(value_str) - 4) \o LastFour(value_str)
             ELSE value

\* df.drop(columns=drop)
DropColumns(df, drop) ==
    [cols   |-> df.cols \ drop,
     dtypes |-> [c \in df.cols \ drop |-> df.dtypes[c]],
     rows   |-> [i \in 1..Len(df.rows) |->
                    [c \in df.cols \ drop |-> df.rows[i][c]]]]

\* df[col] = df[col].apply(f) for every col of the set on
ApplyColumns(df, on, f(_)) ==
    [df EXCEPT !.rows = [i \in 1..Len(df.rows) |->
        [c \in df.cols |-> IF c \in on THEN f(df.rows[i][c])
                           ELSE df.rows[i][c]]]]

\* mask_sensitive_fields leaving the loop over cvv_columns after its first drop
mask_sensitive_fields_first_cvv(df, cfg) ==
    LET first == IF "cvv" \in df.cols THEN {"cvv"}
                 ELSE IF "cvv2" \in df.cols THEN {"cvv2"}
                 ELSE IF "cvc" \in df.cols THEN {"cvc"}
                 ELSE IF "security_code" \in df.cols THEN {"security_code"}
                 ELSE {}
    IN  IF ~cfg.mask_credit_cards THEN df
        ELSE DropColumns(
                ApplyColumns(df, credit_card_columns \cap df.cols,
                             mask_credit_card),
                first)

\* ComplianceChecker.mask_sensitive_fields
mask_sensitive_fields(df, cfg) ==
    IF ~cfg.mask_credit_cards THEN df
    ELSE DropColumns(
            ApplyColumns(df, credit_card_columns \cap df.cols, mask_credit_card),
            cvv_columns \cap df.cols)

----------------------------------------------------------------------------
(* Inputs of the masking runs *)

SeqsUpTo(S, n) == UNION {[1..k -> S] : k \in 0..n}

Card(n) == Rep("4", n - 4) \o <<"1", "2", "3", "4">>

\* "4444-4444-4444-1234"
HyphenCard ==
    Rep("4", 4) \o <<"-">> \o Rep("4", 4) \o <<"-">> \o Rep("4", 4)
        \o <<"-", "1", "2", "3", "4">>

\* "444444444444123-4": a separator among the last four characters
TailHyphenCard == Rep("4", 12) \o <<"1", "2", "3", "-", "4">>

\* "************1234"
MaskedCard == Rep(MaskChar, 12) \o <<"1", "2", "3", "4">>

\* n digits that share no run of 13 digits with a Card
Digits(n) == Rep("5", n - 4) \o <<"6", "7", "8", "9">>

CardValues ==
    {Null, Digits(12), Card(13), Card(16), Card(19), Digits(20), <<"a", "b">>,
     HyphenCard, TailHyphenCard, MaskedCard}

CvvValues == {Null, <<"1", "2", "3">>}

NoteValues == {Null, Card(16)}

ColumnValues(c) ==
    IF c \in credit_card_columns \cup {"credit_card_number"} THEN CardValues
    ELSE IF c \in cvv_columns THEN CvvValues
    ELSE NoteValues

MaskColumnSets ==
    {{"card_number"}, {"card_number", "cvv"}, {"cvv", "cvc"},
     {"card_number", "notes"}, {"credit_card_number"}}

\* The rows over the columns cols whose cell in column c is drawn from V(c)
RowsOver(cols, V(_)) ==
    LET f[S \in SUBSET cols] ==
            IF S = {} THEN {[c \in {} |-> Null]}
            ELSE LET c == CHOOSE x \in S : TRUE
                 IN  {(c :> v) @@ r : v \in V(c), r \in f[S \ {c}]}
    IN  f[cols]

MaskBatches(n) ==
    UNION {{[cols |-> cols, dtypes |-> [c \in cols |-> "object"], rows |-> rs] :
                rs \in SeqsUpTo(RowsOver(cols, ColumnValues), n)} :
           cols \in MaskColumnSets}

EmptyBatch == [cols |-> {}, dtypes |-> <<>>, rows |-> <<>>]

\* load_config: the flags read by the stage and the checker
Configs == [dedup_enabled : BOOLEAN, pci_dss_enabled : BOOLEAN,
            mask_credit_cards : BOOLEAN]

DefaultConfig == [dedup_enabled |-> TRUE, pci_dss_enabled |-> TRUE,
                  mask_credit_cards |-> TRUE]

----------------------------------------------------------------------------
(* Masking a batch, then masking the result again *)

MaskIdle ==
    /\ m_pc = "idle"
    /\ m_df = EmptyBatch
    /\ m_once = EmptyBatch
    /\ m_twice = EmptyBatch
    /\ m_cfg = DefaultConfig

MaskInit ==
    /\ m_pc = "start"
    /\ m_df \in MaskBatches(MaxMaskRows)
    /\ m_once = EmptyBatch
    /\ m_twice = EmptyBatch
    /\ m_cfg \in {c \in Configs : c.dedup_enabled /\ c.pci_dss_enabled}

MaskOnce ==
    /\ m_pc = "start"
    /\ m_once' = mask_sensitive_fields(m_df, m_cfg)
    /\ m_pc' = "once"
    /\ UNCHANGED <<m_df, m_twice, m_cfg, dvars, rvars, svars, uvars>>

MaskTwice ==
    /\ m_pc = "once"
    /\ m_twice' = mask_sensitive_fields(m_once, m_cfg)
    /\ m_pc' = "twice"
    /\ UNCHANGED <<m_df, m_once, m_cfg, dvars, rvars, svars, uvars>>

MaskNext == MaskOnce \/ MaskTwice

----------------------------------------------------------------------------
(* RawToCuratedProcessor: deduplication *)

\* A missing timestamp (NaT); real timestamps are positive.
NaT == -1

\* config.get('deduplication.timestamp_column', 'dms_timestamp')
timestamp_col == "dms_timestamp"

\* RawToCuratedProcessor._get_primary_keys
get_primary_keys(table_name) ==
    CASE table_name = "customers"   -> {"customer_id"}
      [] table_name = "orders"      -> {"order_id"}
      [] table_name = "order_items" -> {"order_item_id"}
      [] table_name = "products"    -> {"product_id"}
      [] table_name = "categories"  -> {"category_id"}
      [] table_name = "inventory"   -> {"inventory_id"}
      [] table_name = "payments"    -> {"payment_id"}
      [] table_name = "shipments"   -> {"shipment_id"}
      [] table_name = "reviews"     -> {"review_id"}
      [] table_name = "promotions"  -> {"promotion_id"}
      [] OTHER                      -> {}

\* The values of a row in the columns of subset
KeyOf(row, subset) == [c \in subset |-> row[c]]

\* The rows of rs at the positions of idx, in the order of rs
RowsAt(rs, idx) ==
    LET f[k \in 0..Len(rs)] ==
            IF k = 0 THEN <<>>
            ELSE IF k \in idx THEN Append(f[k - 1], rs[k]) ELSE f[k - 1]
    IN  f[Len(rs)]

\* drop_duplicates with keep=False: every row of a repeated key is dropped
drop_duplicates_keep_none(rs, subset) ==
    RowsAt(rs, {i \in 1..Len(rs) :
                  \A j \in 1..Len(rs) :
                      j # i => KeyOf(rs[j], subset) # KeyOf(rs[i], subset)})

\* drop_duplicates with keep='last': the last row of every key is kept
drop_duplicates_keep_last(rs, subset) ==
    RowsAt(rs, {i \in 1..Len(rs) :
                  \A j \in (i + 1)..Len(rs) :
                      KeyOf(rs[j], subset) # KeyOf(rs[i], subset)})

\* DataFrame.drop_duplicates(subset=subset, keep='first') on the rows
drop_duplicates(rs, subset) ==
    RowsAt(rs, {i \in 1..Len(rs) :
                  \A j \in 1..(i - 1) : KeyOf(rs[j], subset) # KeyOf(rs[i], subset)})

\* The order of sort_values(ascending=True)
AscendingOrder(a, b) == IF b = NaT THEN TRUE ELSE a # NaT /\ a <= b

\* a is placed no later than b by a descending sort with missing values last
DescendingOrder(a, b) == IF b = NaT THEN TRUE ELSE a # NaT /\ a >= b

\* DataFrame.sort_values(by=col, ascending=False): the default sort kind
\* (quicksort) is not stable, so rows with equal values may come out in any
\* order; missing values are placed last.
sort_values_descending(rs, col) ==
    {[i \in 1..Len(rs) |-> rs[p[i]]] :
        p \in {q \in Permutations(1..Len(rs)) :
                  \A i \in 1..(Len(rs) - 1) :
                      DescendingOrder(rs[q[i]][col], rs[q[i + 1]][col])}}

\* _deduplicate_records without the two early returns
deduplicate_records_unguarded(df, table_name) ==
    LET primary_keys == get_primary_keys(table_name) \cap df.cols
    IN  IF timestamp_col \notin df.cols
        THEN {[df EXCEPT !.rows = drop_duplicates(df.rows, primary_keys)]}
        ELSE {[df EXCEPT !.rows = drop_duplicates(sorted, primary_keys)] :
                 sorted \in sort_values_descending(df.rows, timestamp_col)}

\* RawToCuratedProcessor._deduplicate_records: the set of batches the call
\* may return
deduplicate_records(df, table_name) ==
    LET primary_keys == get_primary_keys(table_name)
    IN  IF primary_keys = {} THEN {df}
        ELSE IF primary_keys \ df.cols # {} THEN {df}
        ELSE IF timestamp_col \notin df.cols
             THEN {[df EXCEPT !.rows = drop_duplicates(df.rows, primary_keys)]}
             ELSE {[df EXCEPT !.rows = drop_duplicates(sorted, primary_keys)] :
                      sorted \in sort_values_descending(df.rows, timestamp_col)}

----------------------------------------------------------------------------
(* Inputs of the deduplication runs *)

KeyValues == {1, 2}
TimestampValues == {NaT, 1, 2}
NameValues == {<<"a">>, <<"b">>}

DedupColumnValues(c) ==
    IF c = "customer_id" THEN KeyValues
    ELSE IF c = timestamp_col THEN TimestampValues
    ELSE NameValues

DedupColumnSets ==
    {{"customer_id", "dms_timestamp", "name"}, {"customer_id", "name"},
     {"dms_timestamp", "name"}}

DedupDtype(c) ==
    IF c = "name" THEN "object"
    ELSE IF c = timestamp_col THEN "datetime64[ns]"
    ELSE "int64"

\* The batch of the columns cols with the rows rs
DedupBatch(cols, rs) ==
    [cols |-> cols, dtypes |-> [c \in cols |-> DedupDtype(c)], rows |-> rs]

DedupTables == {"customers", "orders", "events"}

DedupIdle ==
    /\ d_pc = "idle"
    /\ d_df = EmptyBatch
    /\ d_table = ""
    /\ d_out = EmptyBatch

DedupInit ==
    /\ d_pc = "start"
    /\ \E cols \in DedupColumnSets, k \in 0..MaxDedupRows :
          \E rs \in [1..k -> RowsOver(cols, DedupColumnValues)] :
              d_df = DedupBatch(cols, rs)
    /\ d_table \in DedupTables
    /\ d_out = EmptyBatch

Deduplicate ==
    /\ d_pc = "start"
    /\ d_out' \in deduplicate_records(d_df, d_table)
    /\ d_pc' = "done"
    /\ UNCHANGED <<d_df, d_table, mvars, rvars, svars, uvars>>

DedupNext == Deduplicate

----------------------------------------------------------------------------
(* retry_with_backoff *)

\* What one invocation of func does
Outcomes == {"ok", "transient", "permanent"}

\* The object returned by the n-th invocation of func
ReturnValue(n) == <<"value", n>>

\* The exception object raised by the n-th invocation of func
ErrorOf(kind, n) == [kind |-> kind, call |-> n]

None == <<"None">>
NoResult == <<"unset">>
NoError == [kind |-> "none", call |-> 0]

\* while attempt <= max_retries
LoopCondition_inclusive(attempt, max_retries) == attempt <= max_retries

\* while attempt < max_retries
LoopCondition(attempt, max_retries) == attempt < max_retries

\* Giving up one attempt early, and one attempt late
RetriesExhausted_early(attempt, max_retries) == attempt >= max_retries - 1

RetriesExhausted_late(attempt, max_retries) == attempt > max_retries

\* if attempt >= max_retries: raise
RetriesExhausted(attempt, max_retries) == attempt >= max_retries

RetryIdle ==
    /\ r_pc = "idle"
    /\ r_max_retries = 0
    /\ r_initial_delay = 0
    /\ r_backoff_factor = 0
    /\ r_attempt = 0
    /\ r_delay = 0
    /\ r_trace = <<>>
    /\ r_sleeps = <<>>
    /\ r_result = NoResult
    /\ r_error = NoError

\* attempt = 0; delay = initial_delay
RetryInit ==
    /\ r_pc = "loop"
    /\ r_max_retries \in (-1)..MaxRetries
    /\ r_initial_delay \in {1, 2}
    /\ r_backoff_factor \in {2, 3}
    /\ r_attempt = 0
    /\ r_delay = r_initial_delay
    /\ r_trace = <<>>
    /\ r_sleeps = <<>>
    /\ r_result = NoResult
    /\ r_error = NoError

\* return func()
RetryCallOk ==
    /\ r_pc = "loop"
    /\ LoopCondition(r_attempt, r_max_retries)
    /\ r_trace' = Append(r_trace, "ok")
    /\ r_result' = ReturnValue(Len(r_trace) + 1)
    /\ r_pc' = "returned"
    /\ UNCHANGED <<r_max_retries, r_initial_delay, r_backoff_factor, r_attempt,
                   r_delay, r_sleeps, r_error, mvars, dvars, svars, uvars>>

\* except TransientError: attempt += 1; raise when the attempts are used up,
\* otherwise go on to the sleep
RetryCallTransient ==
    /\ r_pc = "loop"
    /\ LoopCondition(r_attempt, r_max_retries)
    /\ r_trace' = Append(r_trace, "transient")
    /\ r_attempt' = r_attempt + 1
    /\ IF RetriesExhausted(r_attempt + 1, r_max_retries)
       THEN /\ r_error' = ErrorOf("transient", Len(r_trace) + 1)
            /\ r_pc' = "raised"
       ELSE /\ r_error' = r_error
            /\ r_pc' = "sleep"
    /\ UNCHANGED <<r_max_retries, r_initial_delay, r_backoff_factor, r_delay,
                   r_sleeps, r_result, mvars, dvars, svars, uvars>>

\* A PermanentError caught by the handler of TransientError
RetryCallPermanent_retried ==
    /\ r_pc = "loop"
    /\ LoopCondition(r_attempt, r_max_retries)
    /\ r_trace' = Append(r_trace, "permanent")
    /\ r_attempt' = r_attempt + 1
    /\ IF RetriesExhausted(r_attempt + 1, r_max_retries)
       THEN /\ r_error' = ErrorOf("permanent", Len(r_trace) + 1)
            /\ r_pc' = "raised"
       ELSE /\ r_error' = r_error
            /\ r_pc' = "sleep"
    /\ UNCHANGED <<r_max_retries, r_initial_delay, r_backoff_factor, r_delay,
                   r_sleeps, r_result, mvars, dvars, svars, uvars>>

\* except PermanentError: raise
RetryCallPermanent ==
    /\ r_pc = "loop"
    /\ LoopCondition(r_attempt, r_max_retries)
    /\ r_trace' = Append(r_trace, "permanent")
    /\ r_error' = ErrorOf("permanent", Len(r_trace) + 1)
    /\ r_pc' = "raised"
    /\ UNCHANGED <<r_max_retries, r_initial_delay, r_backoff_factor, r_attempt,
                   r_delay, r_sleeps, r_result, mvars, dvars, svars, uvars>>

\* time.sleep(delay) with the delay left as it is
RetrySleep_fixed_delay ==
    /\ r_pc = "sleep"
    /\ r_sleeps' = Append(r_sleeps, r_delay)
    /\ r_delay' = r_delay
    /\ r_pc' = "loop"
    /\ UNCHANGED <<r_max_retries, r_initial_delay, r_backoff_factor, r_attempt,
                   r_trace, r_result, r_error, mvars, dvars, svars, uvars>>

\* time.sleep(delay); delay *= backoff_factor
RetrySleep ==
    /\ r_pc = "sleep"
    /\ r_sleeps' = Append(r_sleeps, r_delay)
    /\ r_delay' = r_delay * r_backoff_factor
    /\ r_pc' = "loop"
    /\ UNCHANGED <<r_max_retries, r_initial_delay, r_backoff_factor, r_attempt,
                   r_trace, r_result, r_error, mvars, dvars, svars, uvars>>

\* The while condition is false: the function falls off its end
RetryFallThrough ==
    /\ r_pc = "loop"
    /\ ~LoopCondition(r_attempt, r_max_retries)
    /\ r_result' = None
    /\ r_pc' = "returned"
    /\ UNCHANGED <<r_max_retries, r_initial_delay, r_backoff_factor, r_attempt,
                   r_delay, r_trace, r_sleeps, r_error, mvars, dvars, svars, uvars>>

RetryNext ==
    \/ RetryCallOk
    \/ RetryCallTransient
    \/ RetryCallPermanent
    \/ RetrySleep
    \/ RetryFallThrough

----------------------------------------------------------------------------
(* ValidationResult *)

\* ValidationResult.__init__
NewValidationResult ==
    [passed |-> TRUE, errors |-> <<>>, warnings |-> <<>>, stats |-> {}]

\* ValidationResult.add_error
add_error(result, error) ==
    [result EXCEPT !.passed = FALSE, !.errors = Append(@, error)]

\* add_warning written like add_error: a warning marks the result failed
add_warning_failing(result, warning) ==
    [result EXCEPT !.passed = FALSE, !.warnings = Append(@, warning)]

\* ValidationResult.add_warning
add_warning(result, warning) ==
    [result EXCEPT !.warnings = Append(@, warning)]

\* ValidationResult.add_stat: stats[key] = value
add_stat(result, key, value) ==
    [result EXCEPT !.stats = {kv \in @ : kv[1] # key} \cup {<<key, value>>}]

\* add_error for each message of errors, in order
add_errors(result, errors) ==
    LET f[k \in 0..Len(errors)] ==
            IF k = 0 THEN result ELSE add_error(f[k - 1], errors[k])
    IN  f[Len(errors)]

\* add_warning for each message of warnings, in order
add_warnings(result, warnings) ==
    LET f[k \in 0..Len(warnings)] ==
            IF k = 0 THEN result ELSE add_warning(f[k - 1], warnings[k])
    IN  f[Len(warnings)]

\* The messages and statistics given to a ValidationResult
Messages == {<<"m1">>, <<"m2">>}

StatKeys == {<<"total_records">>, <<"total_columns">>}

StatValues == {0, 1}

ResultIdle ==
    /\ v_pc = "idle"
    /\ v_result = NewValidationResult
    /\ v_last = "none"

\* result = ValidationResult()
ResultInit ==
    /\ v_pc = "new"
    /\ v_result = NewValidationResult
    /\ v_last = "none"

\* The calls made so far on the result
ResultCalls ==
    Len(v_result.errors) + Len(v_result.warnings) + Cardinality(v_result.stats)

\* result.add_error(error)
ResultAddError ==
    /\ v_pc = "new"
    /\ ResultCalls < MaxCalls
    /\ \E error \in Messages : v_result' = add_error(v_result, error)
    /\ v_last' = "add_error"
    /\ UNCHANGED <<v_pc, mvars, dvars, rvars, svars, notv>>

\* result.add_warning(warning)
ResultAddWarning ==
    /\ v_pc = "new"
    /\ ResultCalls < MaxCalls
    /\ \E warning \in Messages : v_result' = add_warning(v_result, warning)
    /\ v_last' = "add_warning"
    /\ UNCHANGED <<v_pc, mvars, dvars, rvars, svars, notv>>

\* result.add_stat(key, value)
ResultAddStat ==
    /\ v_pc = "new"
    /\ ResultCalls < MaxCalls
    /\ \E key \in StatKeys, value \in StatValues :
          v_result' = add_stat(v_result, key, value)
    /\ v_last' = "add_stat"
    /\ UNCHANGED <<v_pc, mvars, dvars, rvars, svars, notv>>

ResultNext == ResultAddError \/ ResultAddWarning \/ ResultAddStat

\* The concatenation of F(x) for the elements x of seq, in order
FlatMap(seq, F(_)) ==
    LET f[k \in 0..Len(seq)] ==
            IF k = 0 THEN <<>> ELSE f[k - 1] \o F(seq[k])
    IN  f[Len(seq)]

\* A missing number (NaN)
NaN == -999

NumericDtypes == {"int64", "int32", "int16", "int8", "float64", "float32",
                  "float16", "bool"}

\* pd.api.types.is_numeric_dtype
is_numeric_dtype(dtype) == dtype \in NumericDtypes

\* Series.isnull of one cell: the missing value of the column's kind
isnull(df, c, v) ==
    IF df.dtypes[c] = "object" THEN v = Null
    ELSE IF is_numeric_dtype(df.dtypes[c]) THEN v = NaN
    ELSE v = NaT

----------------------------------------------------------------------------
(* SchemaValidator *)

EmptySchema == [k \in {} |-> {}]

\* get_default_schema
get_default_schema(table_name) ==
    CASE table_name = "customers" ->
            [columns  |-> <<"customer_id", "email", "first_name", "last_name",
                            "created_at">>,
             types    |-> [customer_id |-> "object", email |-> "object",
                           first_name |-> "object", last_name |-> "object",
                           created_at |-> "datetime64"],
             nullable |-> [customer_id |-> FALSE, email |-> FALSE,
                           first_name |-> FALSE, last_name |-> FALSE,
                           created_at |-> FALSE],
             formats  |-> [email |-> "email"]]
      [] table_name = "orders" ->
            [columns  |-> <<"order_id", "customer_id", "order_date", "total",
                            "order_status">>,
             types    |-> [order_id |-> "object", customer_id |-> "object",
                           order_date |-> "datetime64", total |-> "float64",
                           order_status |-> "object"],
             nullable |-> [order_id |-> FALSE, customer_id |-> FALSE,
                           order_date |-> FALSE, total |-> FALSE,
                           order_status |-> FALSE],
             ranges   |-> [total |-> [min |-> 0]]]
      [] table_name = "products" ->
            [columns  |-> <<"product_id", "name", "price", "category_id">>,
             types    |-> [product_id |-> "object", name |-> "object",
                           price |-> "float64", category_id |-> "object"],
             nullable |-> [product_id |-> FALSE, name |-> FALSE,
                           price |-> FALSE, category_id |-> TRUE],
             ranges   |-> [price |-> [min |-> 0]]]
      [] OTHER -> EmptySchema

\* The keys of a dict of the schema, in the order the dict lists them (each
\* dict of get_default_schema lists its keys in the order of 'columns')
ItemsOf(schema, dict) ==
    SelectSeq(schema.columns, LAMBDA c : c \in DOMAIN dict)

\* SchemaValidator._types_compatible
types_compatible(actual, expected) ==
    IF actual = expected THEN TRUE
    ELSE IF expected \in {"int", "int64", "int32", "integer"}
         THEN actual \in {"int64", "int32", "int16", "int8"}
    ELSE IF expected \in {"float", "float64", "float32"}
         THEN actual \in {"float64", "float32", "float16"}
    ELSE IF expected \in {"str", "string", "object"}
         THEN actual \in {"object", "string"}
    ELSE IF expected \in {"bool", "boolean"}
         THEN actual \in {"bool", "boolean"}
    ELSE IF expected \in {"datetime", "datetime64"}
         THEN actual \in {"datetime64[ns]"}
    ELSE FALSE

\* SchemaValidator._validate_columns
validate_columns(df, schema, result) ==
    LET expected_cols == {schema.columns[i] : i \in 1..Len(schema.columns)}
        missing_cols == expected_cols \ df.cols
        extra_cols == df.cols \ expected_cols
        r1 == IF missing_cols # {}
              THEN add_error(result, <<"Missing columns", missing_cols>>)
              ELSE result
        r2 == IF extra_cols # {}
              THEN add_warning(r1, <<"Extra columns", extra_cols>>)
              ELSE r1
    IN  add_stat(add_stat(r2, <<"missing_columns">>, missing_cols),
                 <<"extra_columns">>, extra_cols)

\* SchemaValidator._validate_types
validate_types(df, schema, result) ==
    add_errors(result,
        FlatMap(ItemsOf(schema, schema.types), LAMBDA col :
            IF col \in df.cols
               /\ ~types_compatible(df.dtypes[col], schema.types[col])
            THEN << <<"has type", col, df.dtypes[col], schema.types[col]>> >>
            ELSE <<>>))

NullCount(df, col) ==
    Cardinality({i \in 1..Len(df.rows) : isnull(df, col, df.rows[i][col])})

\* SchemaValidator._validate_nullable
validate_nullable(df, schema, result) ==
    LET present == SelectSeq(ItemsOf(schema, schema.nullable),
                             LAMBDA col : col \in df.cols)
        r1 == add_errors(result,
                FlatMap(present, LAMBDA col :
                    IF ~schema.nullable[col] /\ NullCount(df, col) > 0
                    THEN << <<"null values", col, NullCount(df, col)>> >>
                    ELSE <<>>))
        f[k \in 0..Len(present)] ==
            IF k = 0 THEN r1
            ELSE add_stat(f[k - 1], <<present[k], "null_count">>,
                          NullCount(df, present[k]))
    IN  f[Len(present)]

\* (df[col] < bound).sum() and (df[col] > bound).sum(): a comparison with a
\* missing value is False
CountBelow(df, col, bound) ==
    Cardinality({i \in 1..Len(df.rows) :
                    df.rows[i][col] # NaN /\ df.rows[i][col] < bound})

CountAbove(df, col, bound) ==
    Cardinality({i \in 1..Len(df.rows) :
                    df.rows[i][col] # NaN /\ df.rows[i][col] > bound})

\* _validate_ranges reading the minimum only
validate_ranges_min_only(df, schema, result) ==
    add_errors(result,
        FlatMap(ItemsOf(schema, schema.ranges), LAMBDA col :
            IF col \notin df.cols \/ ~is_numeric_dtype(df.dtypes[col])
            THEN <<>>
            ELSE LET spec == schema.ranges[col]
                 IN  IF "min" \in DOMAIN spec
                        /\ CountBelow(df, col, spec.min) > 0
                     THEN << <<"below minimum", col,
                               CountBelow(df, col, spec.min), spec.min>> >>
                     ELSE <<>>))

\* SchemaValidator._validate_ranges
validate_ranges(df, schema, result) ==
    add_errors(result,
        FlatMap(ItemsOf(schema, schema.ranges), LAMBDA col :
            IF col \notin df.cols \/ ~is_numeric_dtype(df.dtypes[col])
            THEN <<>>
            ELSE LET spec == schema.ranges[col]
                 IN  (IF "min" \in DOMAIN spec
                         /\ CountBelow(df, col, spec.min) > 0
                      THEN << <<"below minimum", col,
                                CountBelow(df, col, spec.min), spec.min>> >>
                      ELSE <<>>)
                     \o
                     (IF "max" \in DOMAIN spec
                         /\ CountAbove(df, col, spec.max) > 0
                      THEN << <<"above maximum", col,
                                CountAbove(df, col, spec.max), spec.max>> >>
                      ELSE <<>>)))

WordChars == DigitChars \cup {"a", "b", "c", "_"}

\* re.match(r'^[\w\.-]+@[\w\.-]+\.\w+$', s)
email_pattern_match(s) ==
    LET body == IF Len(s) > 0 /\ s[Len(s)] = "\n"
                THEN SubSeq(s, 1, Len(s) - 1) ELSE s
    IN  \E a \in 2..Len(body) : \E d \in (a + 2)..(Len(body) - 1) :
            /\ body[a] = "@"
            /\ body[d] = "."
            /\ \A i \in 1..(a - 1) : body[i] \in WordChars \cup {".", "-"}
            /\ \A i \in (a + 1)..(d - 1) : body[i] \in WordChars \cup {".", "-"}
            /\ \A i \in (d + 1)..Len(body) : body[i] \in WordChars

\* SchemaValidator._validate_formats
validate_formats(df, schema, result) ==
    LET invalid_count(col) ==
            Cardinality({i \in 1..Len(df.rows) :
                            /\ ~isnull(df, col, df.rows[i][col])
                            /\ ~email_pattern_match(df.rows[i][col])})
        present == SelectSeq(ItemsOf(schema, schema.formats),
                             LAMBDA col : col \in df.cols)
        r1 == add_errors(result,
                FlatMap(present, LAMBDA col :
                    IF invalid_count(col) > 0
                    THEN << <<"not matching format", col, invalid_count(col)>> >>
                    ELSE <<>>))
        f[k \in 0..Len(present)] ==
            IF k = 0 THEN r1
            ELSE IF invalid_count(present[k]) > 0
                 THEN add_stat(f[k - 1], <<present[k], "invalid_format_count">>,
                               invalid_count(present[k]))
                 ELSE f[k - 1]
    IN  f[Len(present)]

\* SchemaValidator.validate with expected_schema = schema
schema_validate(df, schema) ==
    LET r0 == add_stat(add_stat(NewValidationResult, <<"total_records">>,
                                Len(df.rows)),
                       <<"total_columns">>, Cardinality(df.cols))
        r1 == IF "columns" \in DOMAIN schema
              THEN validate_columns(df, schema, r0) ELSE r0
        r2 == IF "types" \in DOMAIN schema
              THEN validate_types(df, schema, r1) ELSE r1
        r3 == IF "nullable" \in DOMAIN schema
              THEN validate_nullable(df, schema, r2) ELSE r2
        r4 == IF "ranges" \in DOMAIN schema
              THEN validate_ranges(df, schema, r3) ELSE r3
    IN  IF "formats" \in DOMAIN schema
        THEN validate_formats(df, schema, r4) ELSE r4

----------------------------------------------------------------------------
(* Inputs of the schema validator runs *)

\* "a@b.c"
Email == <<"a", "@", "b", ".", "c">>

\* A schema that declares every kind of constraint
ContactSchema ==
    [columns  |-> <<"email", "total">>,
     types    |-> [email |-> "object", total |-> "float"],
     nullable |-> [email |-> FALSE, total |-> TRUE],
     ranges   |-> [total |-> [min |-> 0, max |-> 10]],
     formats  |-> [email |-> "email"]]

\* A schema that declares a range and no type
RangeSchema ==
    [columns |-> <<"total">>,
     ranges  |-> [total |-> [min |-> 0]]]

Schemas == {ContactSchema, RangeSchema, get_default_schema("products")}

ContactColumnSets == {{"email", "total"}, {"total"}, {"email", "total", "extra"}}

\* The values of a column whose total is of a numeric dtype
NumericTotalValues(c) ==
    IF c = "total" THEN {-1, 5, 11, NaN}
    ELSE IF c = "email" THEN {Null, Email, <<"a", "b">>}
    ELSE {Null}

\* The values of a column whose total holds objects (decimals as they print)
ObjectTotalValues(c) ==
    IF c = "total" THEN {Null, <<"-", "1">>, <<"5">>}
    ELSE IF c = "email" THEN {Null, Email, <<"a", "b">>}
    ELSE {Null}

NumericTotalBatches(n) ==
    UNION {{[cols |-> cols,
             dtypes |-> [c \in cols |-> IF c = "total" THEN total_dtype
                                        ELSE "object"],
             rows |-> rs] :
                rs \in SeqsUpTo(RowsOver(cols, NumericTotalValues), n),
                total_dtype \in {"float64", "int64"}} :
           cols \in ContactColumnSets}

ObjectTotalBatches(n) ==
    UNION {{[cols |-> cols, dtypes |-> [c \in cols |-> "object"], rows |-> rs] :
                rs \in SeqsUpTo(RowsOver(cols, ObjectTotalValues), n)} :
           cols \in ContactColumnSets}

----------------------------------------------------------------------------
(* BusinessRuleValidator *)

\* pd.Timestamp.now()
CurrentTime == 1

\* tolerance = 0.01, amounts being counted in hundredths
Tolerance == 1

Abs(x) == IF x < 0 THEN -x ELSE x

DigitValue(ch) == CHOOSE n \in 0..9 : <<"0", "1", "2", "3", "4", "5", "6", "7", "8", "9">>[n + 1] = ch

\* pd.to_datetime(value, errors='coerce') of one cell of column c
to_datetime(df, c, v) ==
    IF df.dtypes[c] = "datetime64[ns]" THEN v
    ELSE IF isnull(df, c, v) THEN NaT
    ELSE IF is_numeric_dtype(df.dtypes[c]) THEN v
    ELSE IF Len(v) = 1 /\ v[1] \in DigitChars THEN DigitValue(v[1])
    ELSE NaT

\* df[c] = pd.to_datetime(df[c], errors='coerce'), when df has the column
coerce_datetime(df, c) ==
    IF c \notin df.cols THEN df
    ELSE [cols   |-> df.cols,
          dtypes |-> [x \in df.cols |-> IF x = c THEN "datetime64[ns]"
                                        ELSE df.dtypes[x]],
          rows   |-> [i \in 1..Len(df.rows) |->
                        [x \in df.cols |->
                            IF x = c THEN to_datetime(df, c, df.rows[i][c])
                            ELSE df.rows[i][x]]]]

\* The number of rows of df that satisfy P
CountWhere(df, P(_)) == Cardinality({i \in 1..Len(df.rows) : P(df.rows[i])})

\* The messages of a rule: one message when the rule applies to the columns
\* of df and counts a violation
Rule(df, needs, P(_), message) ==
    IF needs \subseteq df.cols /\ CountWhere(df, P) > 0
    THEN << <<message, CountWhere(df, P)>> >>
    ELSE <<>>

Known(row, cs) == \A c \in cs : row[c] # NaN

FutureDates(df, c) ==
    LET coerced == coerce_datetime(df, c)
    IN  Rule(coerced, {c}, LAMBDA r : r[c] # NaT /\ r[c] > CurrentTime,
             "future dates")

\* BusinessRuleValidator._validate_orders
validate_orders(df, result) ==
    LET r1 == add_errors(result,
                Rule(df, {"total"},
                     LAMBDA r : Known(r, {"total"}) /\ r["total"] < 0,
                     "negative total"))
        r2 == add_warnings(r1, FutureDates(df, "order_date"))
        four == {"subtotal", "tax", "shipping_cost", "total"}
    IN  add_errors(r2,
            Rule(df, four,
                 LAMBDA r : Known(r, four) /\
                     Abs(r["subtotal"] + r["tax"] + r["shipping_cost"]
                         - r["total"]) > Tolerance,
                 "subtotal + tax + shipping != total"))

\* BusinessRuleValidator._validate_order_items
validate_order_items(df, result) ==
    LET r1 == add_errors(result,
                Rule(df, {"quantity"},
                     LAMBDA r : Known(r, {"quantity"}) /\ r["quantity"] <= 0,
                     "non-positive quantity"))
        r2 == add_errors(r1,
                Rule(df, {"unit_price"},
                     LAMBDA r : Known(r, {"unit_price"}) /\ r["unit_price"] < 0,
                     "negative unit price"))
        four == {"quantity", "unit_price", "discount", "total"}
    IN  add_errors(r2,
            Rule(df, four,
                 LAMBDA r : Known(r, four) /\
                     Abs(r["quantity"] * r["unit_price"] - r["discount"]
                         - r["total"]) > Tolerance,
                 "quantity * unit_price - discount != total"))

\* BusinessRuleValidator._validate_inventory
validate_inventory(df, result) ==
    LET r1 == add_errors(result,
                Rule(df, {"quantity"},
                     LAMBDA r : Known(r, {"quantity"}) /\ r["quantity"] < 0,
                     "negative quantity"))
        two == {"quantity", "reserved_quantity"}
        r2 == add_errors(r1,
                Rule(df, two,
                     LAMBDA r : Known(r, two) /\
                         r["reserved_quantity"] > r["quantity"],
                     "reserved > total quantity"))
        three == {"quantity", "reserved_quantity", "available_quantity"}
    IN  add_warnings(r2,
            Rule(df, three,
                 LAMBDA r : ~Known(r, three) \/
                     r["available_quantity"]
                         # r["quantity"] - r["reserved_quantity"],
                 "available != quantity - reserved"))

\* BusinessRuleValidator._validate_products
validate_products(df, result) ==
    LET r1 == add_errors(result,
                Rule(df, {"price"},
                     LAMBDA r : Known(r, {"price"}) /\ r["price"] <= 0,
                     "non-positive price"))
        two == {"cost", "price"}
        r2 == add_warnings(r1,
                Rule(df, two,
                     LAMBDA r : Known(r, two) /\ r["cost"] > r["price"],
                     "cost > price"))
    IN  add_errors(r2,
            Rule(df, {"weight"},
                 LAMBDA r : Known(r, {"weight"}) /\ r["weight"] < 0,
                 "negative weight"))

\* BusinessRuleValidator._validate_payments
validate_payments(df, result) ==
    LET r1 == add_errors(result,
                Rule(df, {"amount"},
                     LAMBDA r : Known(r, {"amount"}) /\ r["amount"] <= 0,
                     "non-positive amount"))
        r2 == add_warnings(r1, FutureDates(df, "payment_date"))
    IN  add_warnings(r2,
            Rule(df, {"payment_status", "transaction_id"},
                 LAMBDA r : r["payment_status"] = <<"completed">> /\
                     r["transaction_id"] = Null,
                 "completed payments without transaction ID"))

\* BusinessRuleValidator.validate: the result
business_validate(df, table_name) ==
    CASE table_name = "orders" -> validate_orders(df, NewValidationResult)
      [] table_name = "order_items" ->
            validate_order_items(df, NewValidationResult)
      [] table_name = "inventory" -> validate_inventory(df, NewValidationResult)
      [] table_name = "products" -> validate_products(df, NewValidationResult)
      [] table_name = "payments" -> validate_payments(df, NewValidationResult)
      [] OTHER -> NewValidationResult

\* BusinessRuleValidator.validate: the caller's batch after the call (the
\* date column of orders and payments is assigned in place)
business_validate_batch(df, table_name) ==
    CASE table_name = "orders" -> coerce_datetime(df, "order_date")
      [] table_name = "payments" -> coerce_datetime(df, "payment_date")
      [] OTHER -> df

----------------------------------------------------------------------------
(* ComplianceChecker: the check *)

credit_card_column_list ==
    <<"card_number", "credit_card", "cc_number", "payment_card">>

cvv_column_list == <<"cvv", "cvv2", "cvc", "security_code">>

pii_column_list ==
    <<"ssn", "social_security_number", "drivers_license", "passport_number",
      "tax_id">>

\* re.match(r'^[\*X]{4,15}\d{4}$', s)
masked_pattern_match(s) ==
    LET body == IF Len(s) > 0 /\ s[Len(s)] = "\n"
                THEN SubSeq(s, 1, Len(s) - 1) ELSE s
    IN  /\ Len(body) >= 8
        /\ Len(body) <= 19
        /\ \A i \in 1..(Len(body) - 4) : body[i] \in {"*", "X"}
        /\ \A i \in (Len(body) - 3)..Len(body) : body[i] \in DigitChars

\* _find_unmasked_credit_cards matching the value as stored
find_unmasked_credit_cards_unstripped(df, col) ==
    Cardinality({i \in 1..Len(df.rows) :
        /\ ~isna(df.rows[i][col])
        /\ cc_pattern_match(df.rows[i][col])
        /\ ~masked_pattern_match(df.rows[i][col])})

\* ComplianceChecker._find_unmasked_credit_cards on column col of df
find_unmasked_credit_cards(df, col) ==
    Cardinality({i \in 1..Len(df.rows) :
        /\ ~isna(df.rows[i][col])
        /\ cc_pattern_match(StripSeparators(df.rows[i][col]))
        /\ ~masked_pattern_match(StripSeparators(df.rows[i][col]))})

\* df[col].notna().sum()
NonNullCount(df, col) ==
    Cardinality({i \in 1..Len(df.rows) : ~isnull(df, col, df.rows[i][col])})

\* ComplianceChecker._check_pci_dss
check_pci_dss(df, result) ==
    LET r1 == add_errors(result,
                FlatMap(credit_card_column_list, LAMBDA col :
                    IF col \in df.cols /\ find_unmasked_credit_cards(df, col) > 0
                    THEN << <<"unmasked credit card numbers", col,
                              find_unmasked_credit_cards(df, col)>> >>
                    ELSE <<>>))
        f[k \in 0..Len(credit_card_column_list)] ==
            IF k = 0 THEN r1
            ELSE LET col == credit_card_column_list[k]
                 IN  IF col \in df.cols /\ find_unmasked_credit_cards(df, col) > 0
                     THEN add_stat(f[k - 1], <<col, "unmasked_count">>,
                                   find_unmasked_credit_cards(df, col))
                     ELSE f[k - 1]
    IN  add_errors(f[Len(credit_card_column_list)],
            FlatMap(cvv_column_list, LAMBDA col :
                IF col \in df.cols /\ NonNullCount(df, col) > 0
                THEN << <<"contains CVV data", col>> >>
                ELSE <<>>))

\* ComplianceChecker._check_pii
check_pii(df, result) ==
    add_warnings(result,
        FlatMap(pii_column_list, LAMBDA col :
            IF col \in df.cols /\ NonNullCount(df, col) > 0
            THEN << <<"contains PII", col>> >>
            ELSE <<>>))

\* ComplianceChecker.check_compliance
check_compliance(df, cfg) ==
    check_pii(df, IF cfg.pci_dss_enabled
                  THEN check_pci_dss(df, NewValidationResult)
                  ELSE NewValidationResult)

----------------------------------------------------------------------------
(* S3Client: keys.  A key or a bucket name is a string written as the       *)
(* sequence of its pieces, the separators "/", "-", "=" and "-raw-" being   *)
(* pieces of their own.                                                     *)

\* s.split(sep)
Split(s, sep) ==
    LET f[k \in 0..Len(s)] ==
            IF k = 0 THEN << <<>> >>
            ELSE LET parts == f[k - 1]
                 IN  IF s[k] = sep THEN Append(parts, <<>>)
                     ELSE [parts EXCEPT ![Len(parts)] = Append(@, s[k])]
    IN  f[Len(s)]

\* sep in s
In(sep, s) == \E i \in 1..Len(s) : s[i] = sep

FirstIndex(s, sep) == CHOOSE i \in 1..Len(s) :
    s[i] = sep /\ \A j \in 1..(i - 1) : s[j] # sep

LastIndex(s, sep) == CHOOSE i \in 1..Len(s) :
    s[i] = sep /\ \A j \in (i + 1)..Len(s) : s[j] # sep

\* s.replace(old, new)
Replace(s, old, new) == [i \in 1..Len(s) |-> IF s[i] = old THEN new ELSE s[i]]

\* metadata.get(k, '')
Get(metadata, k) == IF k \in DOMAIN metadata THEN metadata[k] ELSE <<>>

PartitionKeys == {"year", "month", "day"}

\* S3Client.extract_metadata_from_key
extract_metadata_from_key(key) ==
    LET parts == Split(key, "/")
        table_type == IF Len(parts) > 1 THEN parts[2] ELSE <<>>
        base == [schema |-> parts[1], table_type |-> table_type,
                 year |-> <<>>, month |-> <<>>, day |-> <<>>,
                 filename |-> parts[Len(parts)]]
        named == IF table_type = <<>> THEN base
                 ELSE IF In("-", table_type)
                 THEN LET d == LastIndex(table_type, "-")
                      IN  [table |-> SubSeq(table_type, 1, d - 1),
                           type |-> SubSeq(table_type, d + 1, Len(table_type))]
                          @@ base
                 ELSE [table |-> table_type, type |-> <<>>] @@ base
        f[k \in 0..Len(parts)] ==
            IF k = 0 THEN named
            ELSE IF In("=", parts[k])
                    /\ FirstIndex(parts[k], "=") = 2
                    /\ parts[k][1] \in PartitionKeys
                 THEN [f[k - 1] EXCEPT ![parts[k][1]] =
                          SubSeq(parts[k], 3, Len(parts[k]))]
                 ELSE f[k - 1]
    IN  f[Len(parts)]

\* S3Client.construct_target_key
construct_target_key(schema, table, bucket_type, year, month, day, filename) ==
    schema \o <<"/">> \o table \o <<"-", bucket_type>>
        \o (IF year # <<>> THEN <<"/", "year", "=">> \o year ELSE <<>>)
        \o (IF month # <<>> THEN <<"/", "month", "=">> \o month ELSE <<>>)
        \o (IF day # <<>> THEN <<"/", "day", "=">> \o day ELSE <<>>)
        \o <<"/">> \o filename

\* The table name as the key of the dictionaries of tables: the names of
\* the known tables are single pieces
TableName(table) == IF Len(table) = 1 THEN table[1] ELSE ""

----------------------------------------------------------------------------
(* RawToCuratedProcessor.process *)

\* bucket.replace('-raw-', '-curated-')
curated_bucket(bucket) == Replace(bucket, "-raw-", "-curated-")

\* The error bucket derived with the replacement of the curated bucket
error_bucket_curated(bucket) == Replace(bucket, "-raw-", "-curated-")

\* bucket.replace('-raw-', '-errors-')
error_bucket(bucket) == Replace(bucket, "-raw-", "-errors-")

\* The error key is the key itself
error_key_unprefixed(key) == key

\* f"validation-failures/{key}"
error_key(key) == <<"validation-failures", "/">> \o key

curated_key(metadata) ==
    construct_target_key(metadata["schema"], Get(metadata, "table"), "curated",
                         Get(metadata, "year"), Get(metadata, "month"),
                         Get(metadata, "day"), metadata["filename"])

StageTable == TableName(Get(s_metadata, "table"))

\* The dictionary returned on a validation failure
FailedResult(reason, result) ==
    [status |-> "failed", reason |-> reason, errors |-> result.errors]

\* S3Client.write_parquet: the object put
PutObject(bucket, key, df) == [bucket |-> bucket, key |-> key, df |-> df]

\* The errors of a remote call, by the classes of the retry policy
S3Errors == {"TransientError", "PermanentError"}

S3Outcomes == {"ok"} \cup S3Errors

\* One call of the S3 client made by read_parquet (get_object) or
\* write_parquet (put_object), with its outcome
S3Call(op, bucket, outcome) == [op |-> op, bucket |-> bucket, outcome |-> outcome]

StageUnchangedInputs == UNCHANGED <<s_cfg, s_bucket, s_key, s_raw>>

\* extract_metadata_from_key and read_parquet
StageRead ==
    /\ s_pc = "start"
    /\ s_metadata' = extract_metadata_from_key(s_key)
    /\ s_df' = s_raw
    /\ s_io' = Append(s_io, S3Call("get_object", s_bucket, "ok"))
    /\ s_pc' = "schema"
    /\ StageUnchangedInputs
    /\ UNCHANGED <<s_schema_result, s_business_result, s_compliance_result,
                   s_dedup_count, s_writes, s_result, mvars, dvars, rvars, uvars>>

\* read_parquet raises: process re-raises
StageReadFails ==
    /\ s_pc = "start"
    /\ s_metadata' = extract_metadata_from_key(s_key)
    /\ \E error \in S3Errors :
          s_io' = Append(s_io, S3Call("get_object", s_bucket, error))
    /\ s_pc' = "raised"
    /\ StageUnchangedInputs
    /\ UNCHANGED <<s_df, s_schema_result, s_business_result,
                   s_compliance_result, s_dedup_count, s_writes, s_result,
                   mvars, dvars, rvars, uvars>>

\* The table has no default schema: schema validation is skipped
StageSchemaSkipped ==
    /\ s_pc = "schema"
    /\ DOMAIN get_default_schema(StageTable) = {}
    /\ s_pc' = "business"
    /\ StageUnchangedInputs
    /\ UNCHANGED <<s_metadata, s_df, s_schema_result, s_business_result,
                   s_compliance_result, s_dedup_count, s_writes, s_result,
                   s_io,
                   mvars, dvars, rvars, uvars>>

\* Schema validation passes
StageSchemaPassed ==
    /\ s_pc = "schema"
    /\ DOMAIN get_default_schema(StageTable) # {}
    /\ s_schema_result' = schema_validate(s_df, get_default_schema(StageTable))
    /\ s_schema_result'.passed
    /\ s_pc' = "business"
    /\ StageUnchangedInputs
    /\ UNCHANGED <<s_metadata, s_df, s_business_result, s_compliance_result,
                   s_dedup_count, s_writes, s_result, s_io,
                   mvars, dvars, rvars, uvars>>

\* Schema validation fails: _handle_validation_failure writes the batch to
\* the error bucket (a write that raises is caught and logged) and process
\* returns
StageSchemaFailed ==
    /\ s_pc = "schema"
    /\ DOMAIN get_default_schema(StageTable) # {}
    /\ s_schema_result' = schema_validate(s_df, get_default_schema(StageTable))
    /\ ~s_schema_result'.passed
    /\ \E outcome \in S3Outcomes :
          /\ s_io' = Append(s_io, S3Call("put_object", error_bucket(s_bucket),
                                         outcome))
          /\ s_writes' = IF outcome = "ok"
                         THEN Append(s_writes, PutObject(error_bucket(s_bucket),
                                                         error_key(s_key), s_df))
                         ELSE s_writes
    /\ s_result' = FailedResult("schema_validation_failed", s_schema_result')
    /\ s_pc' = "done"
    /\ StageUnchangedInputs
    /\ UNCHANGED <<s_metadata, s_df, s_business_result, s_compliance_result,
                   s_dedup_count, mvars, dvars, rvars, uvars>>

\* Business-rule validation passes
StageBusinessPassed ==
    /\ s_pc = "business"
    /\ s_business_result' = business_validate(s_df, StageTable)
    /\ s_business_result'.passed
    /\ s_df' = business_validate_batch(s_df, StageTable)
    /\ s_pc' = "dedup"
    /\ StageUnchangedInputs
    /\ UNCHANGED <<s_metadata, s_schema_result, s_compliance_result,
                   s_dedup_count, s_writes, s_result, s_io,
                   mvars, dvars, rvars, uvars>>

\* Business-rule validation fails: the batch goes to the error bucket and
\* process returns
StageBusinessFailed ==
    /\ s_pc = "business"
    /\ s_business_result' = business_validate(s_df, StageTable)
    /\ ~s_business_result'.passed
    /\ s_df' = business_validate_batch(s_df, StageTable)
    /\ \E outcome \in S3Outcomes :
          /\ s_io' = Append(s_io, S3Call("put_object", error_bucket(s_bucket),
                                         outcome))
          /\ s_writes' = IF outcome = "ok"
                         THEN Append(s_writes, PutObject(error_bucket(s_bucket),
                                                         error_key(s_key), s_df'))
                         ELSE s_writes
    /\ s_result' = FailedResult("business_rule_validation_failed",
                                s_business_result')
    /\ s_pc' = "done"
    /\ StageUnchangedInputs
    /\ UNCHANGED <<s_metadata, s_schema_result, s_compliance_result,
                   s_dedup_count, mvars, dvars, rvars, uvars>>

\* if self.config.get('deduplication.enabled', True)
StageDeduplicate ==
    /\ s_pc = "dedup"
    /\ s_cfg.dedup_enabled
    /\ s_df' \in deduplicate_records(s_df, StageTable)
    /\ s_dedup_count' = Len(s_raw.rows) - Len(s_df'.rows)
    /\ s_pc' = "compliance"
    /\ StageUnchangedInputs
    /\ UNCHANGED <<s_metadata, s_schema_result, s_business_result,
                   s_compliance_result, s_writes, s_result, s_io,
                   mvars, dvars, rvars, uvars>>

\* else: dedup_count = 0
StageDeduplicationDisabled ==
    /\ s_pc = "dedup"
    /\ ~s_cfg.dedup_enabled
    /\ s_dedup_count' = 0
    /\ s_pc' = "compliance"
    /\ StageUnchangedInputs
    /\ UNCHANGED <<s_metadata, s_df, s_schema_result, s_business_result,
                   s_compliance_result, s_writes, s_result, s_io,
                   mvars, dvars, rvars, uvars>>

\* check_compliance passes: the batch is left as it is
StageCompliancePassed ==
    /\ s_pc = "compliance"
    /\ s_compliance_result' = check_compliance(s_df, s_cfg)
    /\ s_compliance_result'.passed
    /\ s_pc' = "write"
    /\ StageUnchangedInputs
    /\ UNCHANGED <<s_metadata, s_df, s_schema_result, s_business_result,
                   s_dedup_count, s_writes, s_result, s_io,
                   mvars, dvars, rvars, uvars>>

\* check_compliance reports errors and process returns a failed result, as
\* it does for the validators
StageComplianceFailed ==
    /\ s_pc = "compliance"
    /\ s_compliance_result' = check_compliance(s_df, s_cfg)
    /\ ~s_compliance_result'.passed
    /\ s_result' = FailedResult("compliance_check_failed", s_compliance_result')
    /\ s_pc' = "done"
    /\ StageUnchangedInputs
    /\ UNCHANGED <<s_metadata, s_df, s_schema_result, s_business_result,
                   s_dedup_count, s_writes, s_io,
                   mvars, dvars, rvars, uvars>>

\* check_compliance reports errors and the batch as read is masked
StageComplianceMasked_as_read ==
    /\ s_pc = "compliance"
    /\ s_compliance_result' = check_compliance(s_df, s_cfg)
    /\ ~s_compliance_result'.passed
    /\ s_df' = mask_sensitive_fields(s_raw, s_cfg)
    /\ s_pc' = "write"
    /\ StageUnchangedInputs
    /\ UNCHANGED <<s_metadata, s_schema_result, s_business_result,
                   s_dedup_count, s_writes, s_result, s_io,
                   mvars, dvars, rvars, uvars>>

\* check_compliance reports errors: the batch is masked
StageComplianceMasked ==
    /\ s_pc = "compliance"
    /\ s_compliance_result' = check_compliance(s_df, s_cfg)
    /\ ~s_compliance_result'.passed
    /\ s_df' = mask_sensitive_fields(s_df, s_cfg)
    /\ s_pc' = "write"
    /\ StageUnchangedInputs
    /\ UNCHANGED <<s_metadata, s_schema_result, s_business_result,
                   s_dedup_count, s_writes, s_result, s_io,
                   mvars, dvars, rvars, uvars>>

\* write_parquet to the curated bucket, and the result dictionary
StageWrite ==
    /\ s_pc = "write"
    /\ s_writes' = Append(s_writes, PutObject(curated_bucket(s_bucket),
                                              curated_key(s_metadata), s_df))
    /\ s_io' = Append(s_io, S3Call("put_object", curated_bucket(s_bucket), "ok"))
    /\ s_result' = [status |-> "success",
                    input_bucket |-> s_bucket,
                    input_key |-> s_key,
                    output_bucket |-> curated_bucket(s_bucket),
                    output_key |-> curated_key(s_metadata),
                    initial_records |-> Len(s_raw.rows),
                    final_records |-> Len(s_df.rows),
                    duplicates_removed |-> s_dedup_count,
                    schema |-> s_metadata["schema"],
                    table |-> Get(s_metadata, "table")]
    /\ s_pc' = "done"
    /\ StageUnchangedInputs
    /\ UNCHANGED <<s_metadata, s_df, s_schema_result, s_business_result,
                   s_compliance_result, s_dedup_count, mvars, dvars, rvars, uvars>>

\* write_parquet raises: process re-raises
StageWriteFails ==
    /\ s_pc = "write"
    /\ \E error \in S3Errors :
          s_io' = Append(s_io, S3Call("put_object", curated_bucket(s_bucket),
                                      error))
    /\ s_pc' = "raised"
    /\ StageUnchangedInputs
    /\ UNCHANGED <<s_metadata, s_df, s_schema_result, s_business_result,
                   s_compliance_result, s_dedup_count, s_writes, s_result,
                   mvars, dvars, rvars, uvars>>

StageNext ==
    \/ StageRead
    \/ StageReadFails
    \/ StageSchemaSkipped
    \/ StageSchemaPassed
    \/ StageSchemaFailed
    \/ StageBusinessPassed
    \/ StageBusinessFailed
    \/ StageDeduplicate
    \/ StageDeduplicationDisabled
    \/ StageCompliancePassed
    \/ StageComplianceMasked
    \/ StageWrite
    \/ StageWriteFails

----------------------------------------------------------------------------
(* Inputs of the stage runs *)

RawBucket == <<"ecommerce", "-raw-", "123">>

PaymentsKey ==
    <<"ecommerce", "/", "payments", "-", "raw", "/", "year", "=", "2024", "/",
      "month", "=", "01", "/", "day", "=", "15", "/", "data.parquet">>

ProductsKey ==
    <<"ecommerce", "/", "products", "-", "raw", "/", "year", "=", "2024", "/",
      "data.parquet">>

PaymentColumnValues(c) ==
    IF c = "payment_id" THEN {1, 2}
    ELSE IF c = "amount" THEN {0, 5}
    ELSE IF c = "card_number" THEN {Null, Card(13)}
    ELSE IF c = "cvv" THEN CvvValues
    ELSE IF c = "payment_date" THEN {<<"x">>}
    ELSE {1, 2}

PaymentDtype(c) ==
    IF c = "payment_id" THEN "int64"
    ELSE IF c = "amount" THEN "float64"
    ELSE IF c = timestamp_col THEN "datetime64[ns]"
    ELSE "object"

PaymentColumnSets ==
    {{"payment_id", "amount", "card_number"},
     {"payment_id", "card_number", "cvv"},
     {"payment_id", "amount", "dms_timestamp"},
     {"payment_id", "amount", "payment_date"}}

PaymentBatches(n) ==
    UNION {{[cols |-> cols, dtypes |-> [c \in cols |-> PaymentDtype(c)],
             rows |-> rs] :
                rs \in SeqsUpTo(RowsOver(cols, PaymentColumnValues), n)} :
           cols \in PaymentColumnSets}

ProductColumnValues(c) ==
    IF c = "price" THEN {-1, 5, NaN}
    ELSE IF c = "product_id" THEN {Null, <<"p">>}
    ELSE IF c = "name" THEN {<<"a">>}
    ELSE {Null}

ProductColumnSets ==
    {{"product_id", "name", "price", "category_id"},
     {"product_id", "name", "price"}}

ProductBatches(n) ==
    UNION {{[cols |-> cols,
             dtypes |-> [c \in cols |-> IF c = "price" THEN price_dtype
                                        ELSE "object"],
             rows |-> rs] :
                rs \in SeqsUpTo(RowsOver(cols, ProductColumnValues), n),
                price_dtype \in {"float64", "int64"}} :
           cols \in ProductColumnSets}

\* The default configuration and the configurations with one flag turned off
StageConfigs ==
    {c \in Configs :
        Cardinality({f \in DOMAIN c : ~c[f]}) <= 1}

StageInit ==
    /\ s_pc = "start"
    /\ s_cfg \in StageConfigs
    /\ s_bucket = RawBucket
    /\ \/ /\ s_key = PaymentsKey
          /\ \E cols \in PaymentColumnSets, k \in 0..MaxStageRows :
                \E rs \in [1..k -> RowsOver(cols, PaymentColumnValues)] :
                    s_raw = [cols |-> cols,
                             dtypes |-> [c \in cols |-> PaymentDtype(c)],
                             rows |-> rs]
       \/ /\ s_key = ProductsKey
          /\ \E cols \in ProductColumnSets, k \in 0..MaxStageRows :
                \E rs \in [1..k -> RowsOver(cols, ProductColumnValues)],
                   price_dtype \in {"float64", "int64"} :
                    s_raw = [cols |-> cols,
                             dtypes |-> [c \in cols |->
                                           IF c = "price" THEN price_dtype
                                           ELSE "object"],
                             rows |-> rs]
    /\ s_metadata = <<>>
    /\ s_df = EmptyBatch
    /\ s_schema_result = NewValidationResult
    /\ s_business_result = NewValidationResult
    /\ s_compliance_result = NewValidationResult
    /\ s_dedup_count = 0
    /\ s_writes = <<>>
    /\ s_result = <<>>
    /\ s_io = <<>>

----------------------------------------------------------------------------
(* Specifications *)

StageIdle ==
    /\ s_pc = "idle"
    /\ s_cfg = DefaultConfig
    /\ s_bucket = <<>>
    /\ s_key = <<>>
    /\ s_metadata = <<>>
    /\ s_raw = EmptyBatch
    /\ s_df = EmptyBatch
    /\ s_schema_result = NewValidationResult
    /\ s_business_result = NewValidationResult
    /\ s_compliance_result = NewValidationResult
    /\ s_dedup_count = 0
    /\ s_writes = <<>>
    /\ s_result = <<>>
    /\ s_io = <<>>

\* The batches of the orders table: the columns of the tests and the
\* columns the rules read, amounts being counted in hundredths
OrderColumnValues(c) ==
    IF c = "order_id" THEN {<<"o">>}
    ELSE IF c = "order_total" THEN {1, 2, 5}
    ELSE IF c = "item_total" THEN {1, 5}
    ELSE IF c = "subtotal" THEN {1, 5}
    ELSE IF c = "tax" THEN {0, 1}
    ELSE IF c = "shipping_cost" THEN {0}
    ELSE IF c = "total" THEN {-1, 2, 6, NaN}
    ELSE {Null, <<"0">>, <<"2">>}

OrderColumnSets ==
    {{"order_id", "order_total", "item_total"},
     {"subtotal", "tax", "shipping_cost", "total"},
     {"total", "order_date"}}

OrderBatches(n) ==
    UNION {{[cols |-> cols,
             dtypes |-> [c \in cols |-> IF c \in {"order_id", "order_date"}
                                        THEN "object" ELSE "float64"],
             rows |-> rs] :
                rs \in SeqsUpTo(RowsOver(cols, OrderColumnValues), n)} :
           cols \in OrderColumnSets}

BusinessIdle ==
    /\ b_pc = "idle"
    /\ b_df = EmptyBatch
    /\ b_table = ""
    /\ b_result = NewValidationResult
    /\ b_after = EmptyBatch

\* validator = BusinessRuleValidator(), with a batch of a table to validate
BusinessInit ==
    /\ b_pc = "start"
    /\ \/ b_df \in OrderBatches(MaxBusinessRows) /\ b_table \in {"orders", "events"}
       \/ b_df \in ProductBatches(MaxBusinessRows) /\ b_table = "products"
       \/ b_df \in PaymentBatches(MaxBusinessRows) /\ b_table = "payments"
    /\ b_result = NewValidationResult
    /\ b_after = EmptyBatch

\* result = validator.validate(df, table_name); b_after is df after the call
BusinessValidate ==
    /\ b_pc = "start"
    /\ b_result' = business_validate(b_df, b_table)
    /\ b_after' = business_validate_batch(b_df, b_table)
    /\ b_pc' = "done"
    /\ UNCHANGED <<b_df, b_table, mvars, dvars, rvars, svars, notb>>

BusinessNext == BusinessValidate

\* The schema validator applied to one batch
SchemaIdle ==
    /\ x_pc = "idle"
    /\ x_df = EmptyBatch
    /\ x_schema = EmptySchema
    /\ x_result = NewValidationResult

\* validator = SchemaValidator(schema), with a batch to validate
SchemaInit ==
    /\ x_pc = "start"
    /\ \/ x_df \in NumericTotalBatches(MaxSchemaRows)
       \/ x_df \in ObjectTotalBatches(MaxSchemaRows)
       \/ x_df \in ProductBatches(MaxSchemaRows)
    /\ x_schema \in Schemas
    /\ x_result = NewValidationResult

\* result = validator.validate(df)
SchemaValidate ==
    /\ x_pc = "start"
    /\ x_result' = schema_validate(x_df, x_schema)
    /\ x_pc' = "done"
    /\ UNCHANGED <<x_df, x_schema, mvars, dvars, rvars, svars, notx>>

SchemaNext == SchemaValidate

----------------------------------------------------------------------------
(* CuratedToProdProcessor: transformations.  Timestamps are counted in     *)
(* days from Monday 2024-01-01, amounts in hundredths; the values of an     *)
(* object column are strings or missing.                                    *)

Inf == 2000000000

IsLeap(y) == (y % 4 = 0 /\ y % 100 # 0) \/ y % 400 = 0

DaysInMonth(y, m) ==
    IF m = 2 THEN (IF IsLeap(y) THEN 29 ELSE 28)
    ELSE IF m \in {4, 6, 9, 11} THEN 30 ELSE 31

\* The date d days after the first day of month m of year y
RECURSIVE CivilFrom(_, _, _)
CivilFrom(y, m, d) ==
    IF d < DaysInMonth(y, m) THEN [year |-> y, month |-> m, day |-> d + 1]
    ELSE IF m = 12 THEN CivilFrom(y + 1, 1, d - 31)
    ELSE CivilFrom(y, m + 1, d - DaysInMonth(y, m))

\* Series.dt.year, .dt.month and .dt.day of one timestamp
Civil(t) == CivilFrom(2024, 1, t)

\* Series.dt.dayofweek of one timestamp, Monday being 0
dayofweek(t) == t % 7

\* df[c]
Column(df, c) == [i \in 1..Len(df.rows) |-> df.rows[i][c]]

\* df[c] = values, with the dtype of the values
assign(df, c, dtype, values) ==
    LET cols == df.cols \cup {c}
    IN  [cols   |-> cols,
         dtypes |-> [x \in cols |-> IF x = c THEN dtype ELSE df.dtypes[x]],
         rows   |-> [i \in 1..Len(df.rows) |->
                       [x \in cols |-> IF x = c THEN values[i]
                                       ELSE df.rows[i][x]]]]

\* The dtype of a series of integers, which is a float series as soon as a
\* value is missing
IntegerDtype(values) ==
    IF \E i \in DOMAIN values : values[i] = NaN THEN "float64" ELSE "int64"

\* pd.to_datetime(df[c]) raises: without errors='coerce' a string that is
\* not a date is an error
to_datetime_raises(df, c) ==
    /\ c \in df.cols
    /\ df.dtypes[c] = "object"
    /\ \E i \in 1..Len(df.rows) :
          /\ ~isnull(df, c, df.rows[i][c])
          /\ to_datetime(df, c, df.rows[i][c]) = NaT

\* (datetime.now() - df[c]).dt.days
AgeDays(dates, now) ==
    [i \in DOMAIN dates |-> IF dates[i] = NaT THEN NaN ELSE now - dates[i]]

\* CuratedToProdProcessor._transform_orders
transform_orders(df, now) ==
    IF "order_date" \notin df.cols THEN df
    ELSE LET dated == coerce_datetime(df, "order_date")
             dates == Column(dated, "order_date")
             year == [i \in DOMAIN dates |->
                        IF dates[i] = NaT THEN NaN ELSE Civil(dates[i]).year]
             month == [i \in DOMAIN dates |->
                        IF dates[i] = NaT THEN NaN ELSE Civil(dates[i]).month]
             day == [i \in DOMAIN dates |->
                        IF dates[i] = NaT THEN NaN ELSE Civil(dates[i]).day]
             weekday == [i \in DOMAIN dates |->
                        IF dates[i] = NaT THEN NaN ELSE dayofweek(dates[i])]
             age == AgeDays(dates, now)
             d1 == assign(dated, "order_year", IntegerDtype(year), year)
             d2 == assign(d1, "order_month", IntegerDtype(month), month)
             d3 == assign(d2, "order_day", IntegerDtype(day), day)
             d4 == assign(d3, "order_day_of_week", IntegerDtype(weekday),
                          weekday)
         IN  assign(d4, "order_age_days", IntegerDtype(age), age)

\* CuratedToProdProcessor._transform_customers
transform_customers(df, now) ==
    LET aged == IF "signup_date" \notin df.cols THEN df
                ELSE LET dated == coerce_datetime(df, "signup_date")
                         age == AgeDays(Column(dated, "signup_date"), now)
                     IN  assign(dated, "customer_age_days", IntegerDtype(age),
                                age)
    IN  IF "total_spent" \notin aged.cols
        THEN assign(aged, "total_spent", "float64",
                    [i \in 1..Len(aged.rows) |-> 0])
        ELSE aged

\* round(n / d) to the nearest integer, halves to the even one
RoundDiv(n, d) ==
    LET num == IF d < 0 THEN -n ELSE n
        den == Abs(d)
        q == num \div den
        r == num % den
    IN  IF 2 * r > den THEN q + 1
        ELSE IF 2 * r < den THEN q
        ELSE IF q % 2 = 0 THEN q ELSE q + 1

\* ((price - cost) / price * 100).round(2) of one row, in hundredths of a
\* percent
profit_margin(price, cost) ==
    IF price = NaN \/ cost = NaN THEN NaN
    ELSE IF price = 0
         THEN (IF price = cost THEN NaN
               ELSE IF cost < 0 THEN Inf ELSE -Inf)
    ELSE RoundDiv((price - cost) * 10000, price)

\* pd.cut(price, bins=[0, 10, 50, 100, 500, inf], labels=[...]) of one row
price_category(price) ==
    IF price = NaN \/ price <= 0 THEN Null
    ELSE IF price <= 1000 THEN <<"budget">>
    ELSE IF price <= 5000 THEN <<"economy">>
    ELSE IF price <= 10000 THEN <<"standard">>
    ELSE IF price <= 50000 THEN <<"premium">>
    ELSE <<"luxury">>

\* CuratedToProdProcessor._transform_products
transform_products(df) ==
    LET margins == IF {"price", "cost"} \subseteq df.cols
                   THEN assign(df, "profit_margin", "float64",
                               [i \in 1..Len(df.rows) |->
                                   profit_margin(df.rows[i]["price"],
                                                 df.rows[i]["cost"])])
                   ELSE df
    IN  IF "price" \in df.cols
        THEN assign(margins, "price_category", "category",
                    [i \in 1..Len(df.rows) |->
                        price_category(df.rows[i]["price"])])
        ELSE margins

\* The product of two cells, missing when one of them is
Times(a, b) == IF a = NaN \/ b = NaN THEN NaN ELSE a * b

\* CuratedToProdProcessor._transform_order_items
transform_order_items(df) ==
    LET totals == IF {"quantity", "unit_price"} \subseteq df.cols
                  THEN assign(df, "line_total",
                              IF df.dtypes["unit_price"] = "int64"
                                 /\ df.dtypes["quantity"] = "int64"
                              THEN "int64" ELSE "float64",
                              [i \in 1..Len(df.rows) |->
                                  Times(df.rows[i]["quantity"],
                                        df.rows[i]["unit_price"])])
                  ELSE df
        discount == [i \in 1..Len(totals.rows) |->
                        LET product == Times(totals.rows[i]["line_total"],
                                             totals.rows[i]["discount_percent"])
                        IN  IF product = NaN THEN NaN
                            ELSE RoundDiv(product, 100)]
    IN  IF {"discount_percent", "line_total"} \subseteq totals.cols
        THEN assign(assign(totals, "discount_amount", "float64", discount),
                    "final_amount", "float64",
                    [i \in 1..Len(totals.rows) |->
                        IF discount[i] = NaN THEN NaN
                        ELSE totals.rows[i]["line_total"] - discount[i]])
        ELSE totals

\* A transformation raises: pd.to_datetime without errors='coerce' on a
\* string that is not a date, the subtraction or pd.cut on a column of
\* strings
transformation_raises(df, table_name) ==
    IF table_name = "orders" THEN to_datetime_raises(df, "order_date")
    ELSE IF table_name = "customers"
         THEN to_datetime_raises(df, "signup_date")
    ELSE IF table_name = "products"
         THEN \/ "price" \in df.cols /\ df.dtypes["price"] = "object"
              \/ {"price", "cost"} \subseteq df.cols
                 /\ df.dtypes["cost"] = "object"
    ELSE FALSE

\* CuratedToProdProcessor._apply_transformations
apply_transformations(df, table_name, now) ==
    IF table_name = "orders" THEN transform_orders(df, now)
    ELSE IF table_name = "customers" THEN transform_customers(df, now)
    ELSE IF table_name = "products" THEN transform_products(df)
    ELSE IF table_name = "order_items" THEN transform_order_items(df)
    ELSE df

\* pd.to_numeric of a string of digits
to_numeric(s) ==
    LET f[k \in 0..Len(s)] ==
            IF k = 0 THEN 0 ELSE 10 * f[k - 1] + DigitValue(s[k])
    IN  f[Len(s)]

\* df[col].str.match(r'^\d+$').all(): missing values are skipped
all_digits(df, col) ==
    \A i \in 1..Len(df.rows) :
        \/ isnull(df, col, df.rows[i][col])
        \/ /\ Len(df.rows[i][col]) > 0
           /\ \A j \in 1..Len(df.rows[i][col]) : df.rows[i][col][j] \in DigitChars

\* The loop of _optimize_for_athena over the object columns
convert_numeric_strings(df) ==
    LET converts(c) == df.dtypes[c] = "object" /\ all_digits(df, c)
        missing(c) == \E i \in 1..Len(df.rows) : isnull(df, c, df.rows[i][c])
    IN  [cols   |-> df.cols,
         dtypes |-> [c \in df.cols |->
                       IF converts(c)
                       THEN (IF missing(c) THEN "float64" ELSE "int64")
                       ELSE df.dtypes[c]],
         rows   |-> [i \in 1..Len(df.rows) |->
                       [c \in df.cols |->
                           IF converts(c)
                           THEN (IF isnull(df, c, df.rows[i][c]) THEN NaN
                                 ELSE to_numeric(df.rows[i][c]))
                           ELSE df.rows[i][c]]]]

\* a is placed no later than b by an ascending sort with missing values last
NotAfter(a, b) ==
    IF b \in {NaT, NaN} THEN TRUE ELSE a \notin {NaT, NaN} /\ a <= b

\* DataFrame.sort_values(col): the default sort kind (quicksort) is not
\* stable, so rows with equal values may come out in any order
sort_values(rs, col) ==
    {[i \in 1..Len(rs) |-> rs[p[i]]] :
        p \in {q \in Permutations(1..Len(rs)) :
                  \A i \in 1..(Len(rs) - 1) :
                      NotAfter(rs[q[i]][col], rs[q[i + 1]][col])}}

\* The column _optimize_for_athena sorts by, if any
SortColumns(df) ==
    IF "order_date" \in df.cols THEN {"order_date"}
    ELSE IF "created_date" \in df.cols THEN {"created_date"}
    ELSE IF "timestamp" \in df.cols THEN {"timestamp"}
    ELSE {}

\* CuratedToProdProcessor._optimize_for_athena: the set of batches the call
\* may return
optimize_for_athena(df) ==
    LET converted == convert_numeric_strings(df)
    IN  IF SortColumns(converted) = {} THEN {converted}
        ELSE {[converted EXCEPT !.rows = sorted] :
                 sorted \in UNION {sort_values(converted.rows, c) :
                                      c \in SortColumns(converted)}}

\* bucket.replace('-curated-', '-prod-')
prod_bucket(bucket) == Replace(bucket, "-curated-", "-prod-")

prod_key(metadata) ==
    construct_target_key(metadata["schema"], Get(metadata, "table"), "prod",
                         Get(metadata, "year"), Get(metadata, "month"),
                         Get(metadata, "day"), metadata["filename"])

\* crawler_name = f"{schema}-crawler"
crawler_name(schema) == schema \o <<"-crawler">>

\* The outcomes of glue_client.start_crawler
GlueOutcomes ==
    {"started", "CrawlerRunningException", "EntityNotFoundException",
     "Exception"}

\* The values of datetime.now(), in days
RunTimes == {1, 2}

ProdTable == TableName(Get(p_metadata, "table"))

\* The result dictionary of a run that completes
ProdResult ==
    [status |-> "success",
     input_bucket |-> p_bucket,
     input_key |-> p_key,
     output_bucket |-> prod_bucket(p_bucket),
     output_key |-> prod_key(p_metadata),
     records |-> Len(p_df.rows),
     schema |-> p_metadata["schema"],
     table |-> Get(p_metadata, "table")]

ProdUnchangedInputs == UNCHANGED <<p_cfg, p_bucket, p_key, p_raw, p_run>>

\* extract_metadata_from_key and read_parquet
ProdRead ==
    /\ p_pc = "start"
    /\ p_metadata' = extract_metadata_from_key(p_key)
    /\ p_df' = p_raw
    /\ p_pc' = "transform"
    /\ ProdUnchangedInputs
    /\ UNCHANGED <<p_now, p_writes, p_glue, p_result,
                   mvars, dvars, rvars, svars, notp>>

\* read_parquet raises: process re-raises
ProdReadFails ==
    /\ p_pc = "start"
    /\ p_metadata' = extract_metadata_from_key(p_key)
    /\ p_pc' = "raised"
    /\ ProdUnchangedInputs
    /\ UNCHANGED <<p_df, p_now, p_writes, p_glue, p_result,
                   mvars, dvars, rvars, svars, notp>>

\* df = self._apply_transformations(df, table), p_now being the value of
\* datetime.now() during the call
ProdTransform ==
    /\ p_pc = "transform"
    /\ ~transformation_raises(p_df, ProdTable)
    /\ p_df' = apply_transformations(p_df, ProdTable, p_now)
    /\ p_pc' = "optimize"
    /\ ProdUnchangedInputs
    /\ UNCHANGED <<p_metadata, p_now, p_writes, p_glue, p_result,
                   mvars, dvars, rvars, svars, notp>>

\* A transformation raises: process re-raises
ProdTransformRaises ==
    /\ p_pc = "transform"
    /\ transformation_raises(p_df, ProdTable)
    /\ p_pc' = "raised"
    /\ ProdUnchangedInputs
    /\ UNCHANGED <<p_metadata, p_df, p_now, p_writes, p_glue, p_result,
                   mvars, dvars, rvars, svars, notp>>

\* df = self._optimize_for_athena(df)
ProdOptimize ==
    /\ p_pc = "optimize"
    /\ p_df' \in optimize_for_athena(p_df)
    /\ p_pc' = "write"
    /\ ProdUnchangedInputs
    /\ UNCHANGED <<p_metadata, p_now, p_writes, p_glue, p_result,
                   mvars, dvars, rvars, svars, notp>>

\* write_parquet to the prod bucket
ProdWrite ==
    /\ p_pc = "write"
    /\ p_writes' = Append(p_writes, PutObject(prod_bucket(p_bucket),
                                              prod_key(p_metadata), p_df))
    /\ p_pc' = "crawler"
    /\ ProdUnchangedInputs
    /\ UNCHANGED <<p_metadata, p_df, p_now, p_glue, p_result,
                   mvars, dvars, rvars, svars, notp>>

\* write_parquet raises: process re-raises
ProdWriteFails ==
    /\ p_pc = "write"
    /\ p_pc' = "raised"
    /\ ProdUnchangedInputs
    /\ UNCHANGED <<p_metadata, p_df, p_now, p_writes, p_glue, p_result,
                   mvars, dvars, rvars, svars, notp>>

\* glue.trigger_crawler is off: the result dictionary is returned
ProdCrawlerSkipped ==
    /\ p_pc = "crawler"
    /\ ~p_cfg.trigger_crawler
    /\ p_result' = ProdResult
    /\ p_pc' = "done"
    /\ ProdUnchangedInputs
    /\ UNCHANGED <<p_metadata, p_df, p_now, p_writes, p_glue,
                   mvars, dvars, rvars, svars, notp>>

\* _trigger_glue_crawler lets the error of start_crawler that is neither
\* of the two named exceptions reach process, which re-raises it
ProdTriggerCrawler_raising ==
    /\ p_pc = "crawler"
    /\ p_cfg.trigger_crawler
    /\ \E outcome \in GlueOutcomes :
          /\ p_glue' = Append(p_glue,
                              [Name |-> crawler_name(p_metadata["schema"]),
                               outcome |-> outcome])
          /\ IF outcome = "Exception"
             THEN p_pc' = "raised" /\ p_result' = p_result
             ELSE p_pc' = "done" /\ p_result' = ProdResult
    /\ ProdUnchangedInputs
    /\ UNCHANGED <<p_metadata, p_df, p_now, p_writes,
                   mvars, dvars, rvars, svars, notp>>

\* _trigger_glue_crawler: start_crawler is called once and every exception
\* is caught and logged; then the result dictionary is returned
ProdTriggerCrawler ==
    /\ p_pc = "crawler"
    /\ p_cfg.trigger_crawler
    /\ \E outcome \in GlueOutcomes :
          p_glue' = Append(p_glue,
                           [Name |-> crawler_name(p_metadata["schema"]),
                            outcome |-> outcome])
    /\ p_result' = ProdResult
    /\ p_pc' = "done"
    /\ ProdUnchangedInputs
    /\ UNCHANGED <<p_metadata, p_df, p_now, p_writes,
                   mvars, dvars, rvars, svars, notp>>

\* The trigger event of the object is delivered again, no earlier than the
\* run before: process is called on the same bucket and key
ProdRerun ==
    /\ p_pc \in {"done", "raised"}
    /\ p_run < MaxRuns
    /\ p_run' = p_run + 1
    /\ p_now' \in {t \in RunTimes : t >= p_now}
    /\ p_pc' = "start"
    /\ p_metadata' = <<>>
    /\ p_df' = EmptyBatch
    /\ p_result' = <<>>
    /\ UNCHANGED <<p_cfg, p_bucket, p_key, p_raw, p_writes, p_glue,
                   mvars, dvars, rvars, svars, notp>>

ProdNext ==
    \/ ProdRead
    \/ ProdReadFails
    \/ ProdTransform
    \/ ProdTransformRaises
    \/ ProdOptimize
    \/ ProdWrite
    \/ ProdWriteFails
    \/ ProdCrawlerSkipped
    \/ ProdTriggerCrawler
    \/ ProdRerun

----------------------------------------------------------------------------
(* Inputs of the Curated->Prod runs *)

CuratedBucket == <<"ecommerce", "-curated-", "123">>

CuratedKey(table) ==
    <<"ecommerce", "/", table, "-", "curated", "/", "year", "=", "2024", "/",
      "month", "=", "01", "/", "day", "=", "15", "/", "data.parquet">>

NonEmptySeqsUpTo(S, n) == SeqsUpTo(S, n) \ {<<>>}

\* A batch of the given columns and dtypes with at most n rows
BatchesOf(dtypes, rowset, n) ==
    {[cols |-> DOMAIN dtypes, dtypes |-> dtypes, rows |-> rs] :
        rs \in NonEmptySeqsUpTo(rowset, n)}

OrderDateBatches(n) ==
    BatchesOf([order_id |-> "object", order_date |-> "datetime64[ns]"],
              [order_id : {<<"7">>}, order_date : {NaT, 0, 45}], n)

OrderStringDateBatches(n) ==
    BatchesOf([order_id |-> "object", order_date |-> "object"],
              [order_id : {<<"7">>}, order_date : {Null, <<"5">>, <<"x">>}], n)

CustomerBatches(n) ==
    BatchesOf([customer_id |-> "object", signup_date |-> "datetime64[ns]"],
              [customer_id : {<<"c">>}, signup_date : {NaT, 0}], n)

SpendingBatches(n) ==
    BatchesOf([customer_id |-> "object", total_spent |-> "float64"],
              [customer_id : {<<"c">>}, total_spent : {500}], n)

PricedBatches(n) ==
    BatchesOf([product_id |-> "object", price |-> "float64",
               cost |-> "float64"],
              [product_id : {<<"p">>}, price : {NaN, 0, 2000},
               cost : {200}], n)

OrderItemBatches(n) ==
    BatchesOf([quantity |-> "int64", unit_price |-> "float64",
               discount_percent |-> "int64"],
              [quantity : {3}, unit_price : {NaN, 250},
               discount_percent : {15}], n)

EventBatches(n) ==
    BatchesOf([event_id |-> "object", timestamp |-> "datetime64[ns]"],
              [event_id : {<<"1">>, <<"e">>}, timestamp : {1, 2}], n)

ProdIdle ==
    /\ p_pc = "idle"
    /\ p_cfg = [trigger_crawler |-> TRUE]
    /\ p_bucket = <<>>
    /\ p_key = <<>>
    /\ p_metadata = <<>>
    /\ p_raw = EmptyBatch
    /\ p_df = EmptyBatch
    /\ p_now = 0
    /\ p_writes = <<>>
    /\ p_glue = <<>>
    /\ p_result = <<>>
    /\ p_run = 0

\* processor.process(bucket, key) is about to be called on a curated object
ProdInit ==
    /\ p_pc = "start"
    /\ p_cfg \in [trigger_crawler : BOOLEAN]
    /\ p_bucket = CuratedBucket
    /\ \/ p_key = CuratedKey("orders") /\ p_raw \in OrderDateBatches(MaxProdRows)
       \/ p_key = CuratedKey("orders")
          /\ p_raw \in OrderStringDateBatches(MaxProdRows)
       \/ p_key = CuratedKey("customers")
          /\ p_raw \in CustomerBatches(MaxProdRows)
       \/ p_key = CuratedKey("customers")
          /\ p_raw \in SpendingBatches(MaxProdRows)
       \/ p_key = CuratedKey("products") /\ p_raw \in PricedBatches(MaxProdRows)
       \/ p_key = CuratedKey("order_items")
          /\ p_raw \in OrderItemBatches(MaxProdRows)
       \/ p_key = CuratedKey("events") /\ p_raw \in EventBatches(MaxProdRows)
    /\ p_metadata = <<>>
    /\ p_df = EmptyBatch
    /\ p_now \in RunTimes
    /\ p_writes = <<>>
    /\ p_glue = <<>>
    /\ p_result = <<>>
    /\ p_run = 1

----------------------------------------------------------------------------
(* Keys of the object path convention, parsed and rebuilt *)

\* {schema}/{table}-{zone}/year={yyyy}/month={mm}/day={dd}/{filename}
ObjectKey(schema, table, zone, year, month, day, filename) ==
    schema \o <<"/">> \o table \o <<"-">> \o zone
        \o <<"/", "year", "=">> \o year
        \o <<"/", "month", "=">> \o month
        \o <<"/", "day", "=">> \o day
        \o <<"/">> \o filename

\* The components of the keys: a name may hold hyphens, a file name may
\* hold hyphens and an equals sign
KeyFields ==
    [schema : {<<"ecommerce">>, <<"eco", "-", "sys">>},
     table : {<<"orders">>, <<"order", "-", "items">>},
     zone : {<<"raw">>, <<"curated">>},
     year : {<<"2024">>, <<"2025">>},
     month : {<<"01">>, <<"12">>},
     day : {<<"15">>},
     filename : {<<"data.parquet">>, <<"part", "-", "0.parquet">>,
                 <<"day", "=", "15.parquet">>},
     target : {"curated", "prod"}]

KeyIdle ==
    /\ k_pc = "idle"
    /\ k_fields = <<>>
    /\ k_key = <<>>
    /\ k_metadata = <<>>
    /\ k_target = <<>>

\* A key of the convention is about to be parsed
KeyInit ==
    /\ k_pc = "start"
    /\ k_fields \in KeyFields
    /\ k_key = ObjectKey(k_fields.schema, k_fields.table, k_fields.zone,
                         k_fields.year, k_fields.month, k_fields.day,
                         k_fields.filename)
    /\ k_metadata = <<>>
    /\ k_target = <<>>

\* metadata = self.s3_client.extract_metadata_from_key(key)
KeyExtract ==
    /\ k_pc = "start"
    /\ k_metadata' = extract_metadata_from_key(k_key)
    /\ k_pc' = "extracted"
    /\ UNCHANGED <<k_fields, k_key, k_target, mvars, dvars, rvars, svars, notk>>

\* self.s3_client.construct_target_key(...), called as the stages call it
KeyConstruct ==
    /\ k_pc = "extracted"
    /\ k_target' = construct_target_key(k_metadata["schema"],
                                        Get(k_metadata, "table"),
                                        k_fields.target,
                                        Get(k_metadata, "year"),
                                        Get(k_metadata, "month"),
                                        Get(k_metadata, "day"),
                                        k_metadata["filename"])
    /\ k_pc' = "done"
    /\ UNCHANGED <<k_fields, k_key, k_metadata, mvars, dvars, rvars, svars, notk>>

KeyNext == KeyExtract \/ KeyConstruct

----------------------------------------------------------------------------
(* ComplianceChecker.check_compliance on its own *)

PiiValues == {Null, <<"x">>}

ComplianceCardValues ==
    {Null, Digits(12), Card(13), Card(19), Digits(20), HyphenCard, MaskedCard}

ComplianceColumnValues(c) ==
    IF c \in credit_card_columns THEN ComplianceCardValues
    ELSE IF c \in cvv_columns THEN CvvValues
    ELSE PiiValues

ComplianceColumnSets ==
    {{"card_number"}, {"payment_card", "security_code"}, {"card_number", "ssn"},
     {"tax_id", "drivers_license"}, {"customer_email", "customer_phone"},
     {"cvv", "customer_email"}}

ComplianceBatches(n) ==
    UNION {{[cols |-> cols, dtypes |-> [c \in cols |-> "object"], rows |-> rs] :
                rs \in SeqsUpTo(RowsOver(cols, ComplianceColumnValues), n)} :
           cols \in ComplianceColumnSets}

ComplianceIdle ==
    /\ c_pc = "idle"
    /\ c_df = EmptyBatch
    /\ c_cfg = DefaultConfig
    /\ c_result = NewValidationResult

\* ComplianceChecker(config), about to check a batch
ComplianceInit ==
    /\ c_pc = "start"
    /\ c_df \in ComplianceBatches(MaxComplianceRows)
    /\ c_cfg \in {[DefaultConfig EXCEPT !.pci_dss_enabled = b] : b \in BOOLEAN}
    /\ c_result = NewValidationResult

\* result = checker.check_compliance(df, table_name)
ComplianceCheck ==
    /\ c_pc = "start"
    /\ c_result' = check_compliance(c_df, c_cfg)
    /\ c_pc' = "done"
    /\ UNCHANGED <<c_df, c_cfg, mvars, dvars, rvars, svars, notc>>

ComplianceNext == ComplianceCheck

----------------------------------------------------------------------------
(* main.lambda_handler.  An event is written by the form of its dictionary *)
(* and the bucket and key it names: the EventBridge form ('detail'), the    *)
(* S3 notification form ('Records') and the manual form, each also with the *)
(* part missing that parse_s3_event reads.                                  *)

EventForms ==
    {"eventbridge", "eventbridge_no_object", "records", "records_empty",
     "manual", "manual_no_bucket"}

ErrorsBucket == <<"ecommerce", "-errors-", "123">>

\* parse_s3_event raises ValueError: a KeyError or IndexError was caught
parse_s3_event_raises(event) ==
    event.form \in {"eventbridge_no_object", "records_empty"}

\* main.parse_s3_event, event.get('bucket') being None without the entry
parse_s3_event(event) ==
    [bucket |-> IF event.form = "manual_no_bucket" THEN None ELSE event.bucket,
     key |-> event.key,
     event_type |-> CASE event.form = "eventbridge" -> "Object Created"
                      [] event.form = "records" -> "ObjectCreated:Put"
                      [] OTHER -> "manual"]

\* main.determine_processing_type raises: '-raw-' in None is a TypeError,
\* a bucket of neither kind a ValueError
determine_processing_type_raises(bucket) ==
    \/ bucket = None
    \/ ~In("-raw-", bucket) /\ ~In("-curated-", bucket)

\* main.determine_processing_type
determine_processing_type(bucket) ==
    IF In("-raw-", bucket) THEN "raw-to-curated" ELSE "curated-to-prod"

NoResponse == [statusCode |-> 0, message |-> "", result |-> <<>>]

OkStatus == 200
ErrorStatus == 500

\* The response returned after the processor has returned result
SuccessResponse(result) ==
    [statusCode |-> OkStatus, message |-> "Processing completed successfully",
     result |-> result]

\* The response returned from the except clause
ErrorResponse ==
    [statusCode |-> ErrorStatus, message |-> "Processing failed",
     result |-> <<>>]

HandlerIdle ==
    /\ h_pc = "idle"
    /\ h_event = [form |-> "manual", bucket |-> <<>>, key |-> <<>>]
    /\ h_type = ""
    /\ h_response = NoResponse

\* lambda_handler(event, context) is about to run; the raw bucket holds a
\* payments object and the curated bucket an events object
HandlerInit ==
    /\ h_pc = "start"
    /\ h_type = ""
    /\ h_response = NoResponse
    /\ \E form \in EventForms :
          \/ /\ h_event = [form |-> form, bucket |-> RawBucket,
                           key |-> PaymentsKey]
             /\ s_raw \in PaymentBatches(MaxHandlerRows)
             /\ s_cfg \in StageConfigs
             /\ p_raw = EmptyBatch
             /\ p_cfg = [trigger_crawler |-> TRUE]
          \/ /\ h_event = [form |-> form, bucket |-> RawBucket,
                           key |-> ProductsKey]
             /\ s_raw \in ProductBatches(MaxHandlerRows)
             /\ s_cfg = DefaultConfig
             /\ p_raw = EmptyBatch
             /\ p_cfg = [trigger_crawler |-> TRUE]
          \/ /\ h_event = [form |-> form, bucket |-> CuratedBucket,
                           key |-> CuratedKey("events")]
             /\ s_raw = EmptyBatch
             /\ s_cfg = DefaultConfig
             /\ p_raw \in EventBatches(MaxHandlerRows)
             /\ p_cfg \in [trigger_crawler : BOOLEAN]
          \/ /\ h_event = [form |-> form, bucket |-> CuratedBucket,
                           key |-> CuratedKey("orders")]
             /\ s_raw = EmptyBatch
             /\ s_cfg = DefaultConfig
             /\ p_raw \in OrderStringDateBatches(MaxHandlerRows)
             /\ p_cfg = [trigger_crawler |-> TRUE]
          \/ /\ h_event = [form |-> form, bucket |-> ErrorsBucket,
                           key |-> PaymentsKey]
             /\ s_raw = EmptyBatch
             /\ s_cfg = DefaultConfig
             /\ p_raw = EmptyBatch
             /\ p_cfg = [trigger_crawler |-> TRUE]
    /\ s_pc = "idle"
    /\ s_bucket = <<>>
    /\ s_key = <<>>
    /\ s_metadata = <<>>
    /\ s_df = EmptyBatch
    /\ s_schema_result = NewValidationResult
    /\ s_business_result = NewValidationResult
    /\ s_compliance_result = NewValidationResult
    /\ s_dedup_count = 0
    /\ s_writes = <<>>
    /\ s_result = <<>>
    /\ s_io = <<>>
    /\ p_pc = "idle"
    /\ p_bucket = <<>>
    /\ p_key = <<>>
    /\ p_metadata = <<>>
    /\ p_df = EmptyBatch
    /\ p_now = 1
    /\ p_writes = <<>>
    /\ p_glue = <<>>
    /\ p_result = <<>>
    /\ p_run = 1

\* The event cannot be parsed or names a bucket of no known kind: the
\* except clause returns the error response
HandlerRejects ==
    /\ h_pc = "start"
    /\ \/ parse_s3_event_raises(h_event)
       \/ determine_processing_type_raises(parse_s3_event(h_event).bucket)
    /\ h_response' = ErrorResponse
    /\ h_pc' = "done"
    /\ UNCHANGED <<h_event, h_type, mvars, dvars, rvars, svars, noth>>

\* processor = RawToCuratedProcessor(config); processor.process(bucket, key)
HandlerCallsRawToCurated ==
    /\ h_pc = "start"
    /\ ~parse_s3_event_raises(h_event)
    /\ ~determine_processing_type_raises(parse_s3_event(h_event).bucket)
    /\ determine_processing_type(parse_s3_event(h_event).bucket)
           = "raw-to-curated"
    /\ h_type' = "raw-to-curated"
    /\ s_bucket' = parse_s3_event(h_event).bucket
    /\ s_key' = parse_s3_event(h_event).key
    /\ s_pc' = "start"
    /\ h_pc' = "called"
    /\ UNCHANGED <<h_event, h_response, s_cfg, s_metadata, s_raw, s_df,
                   s_schema_result, s_business_result, s_compliance_result,
                   s_dedup_count, s_writes, s_result, s_io,
                   mvars, dvars, rvars, noth>>

\* processor = CuratedToProdProcessor(config); processor.process(bucket, key)
HandlerCallsCuratedToProd ==
    /\ h_pc = "start"
    /\ ~parse_s3_event_raises(h_event)
    /\ ~determine_processing_type_raises(parse_s3_event(h_event).bucket)
    /\ determine_processing_type(parse_s3_event(h_event).bucket)
           = "curated-to-prod"
    /\ h_type' = "curated-to-prod"
    /\ p_bucket' = parse_s3_event(h_event).bucket
    /\ p_key' = parse_s3_event(h_event).key
    /\ p_pc' = "start"
    /\ h_pc' = "called"
    /\ UNCHANGED <<h_event, h_response, p_cfg, p_metadata, p_raw, p_df, p_now,
                   p_writes, p_glue, p_result, p_run,
                   mvars, dvars, rvars, svars, vvars, xvars, bvars, kvars,
                   cvars, wvars>>

\* A processor that returned a failed result is answered like an exception
HandlerReturns_failed_as_error ==
    /\ h_pc = "called"
    /\ \/ h_type = "raw-to-curated" /\ s_pc = "done"
          /\ h_response' = IF s_result.status = "failed" THEN ErrorResponse
                           ELSE SuccessResponse(s_result)
       \/ h_type = "curated-to-prod" /\ p_pc = "done"
          /\ h_response' = SuccessResponse(p_result)
    /\ h_pc' = "done"
    /\ UNCHANGED <<h_event, h_type, mvars, dvars, rvars, svars, noth>>

\* The processor has returned its result: statusCode 200 with the result
HandlerReturns ==
    /\ h_pc = "called"
    /\ \/ h_type = "raw-to-curated" /\ s_pc = "done"
          /\ h_response' = SuccessResponse(s_result)
       \/ h_type = "curated-to-prod" /\ p_pc = "done"
          /\ h_response' = SuccessResponse(p_result)
    /\ h_pc' = "done"
    /\ UNCHANGED <<h_event, h_type, mvars, dvars, rvars, svars, noth>>

\* The processor has raised: the except clause returns the error response
HandlerCatches ==
    /\ h_pc = "called"
    /\ \/ h_type = "raw-to-curated" /\ s_pc = "raised"
       \/ h_type = "curated-to-prod" /\ p_pc = "raised"
    /\ h_response' = ErrorResponse
    /\ h_pc' = "done"
    /\ UNCHANGED <<h_event, h_type, mvars, dvars, rvars, svars, noth>>

HandlerNext ==
    \/ HandlerRejects
    \/ HandlerCallsRawToCurated
    \/ HandlerCallsCuratedToProd
    \/ HandlerReturns
    \/ HandlerCatches
    \/ StageRead
    \/ StageReadFails
    \/ StageSchemaSkipped
    \/ StageSchemaPassed
    \/ StageSchemaFailed
    \/ StageBusinessPassed
    \/ StageBusinessFailed
    \/ StageDeduplicate
    \/ StageDeduplicationDisabled
    \/ StageCompliancePassed
    \/ StageComplianceMasked
    \/ StageWrite
    \/ StageWriteFails
    \/ ProdRead
    \/ ProdReadFails
    \/ ProdTransform
    \/ ProdTransformRaises
    \/ ProdOptimize
    \/ ProdWrite
    \/ ProdWriteFails
    \/ ProdCrawlerSkipped
    \/ ProdTriggerCrawler

----------------------------------------------------------------------------
(* Two invocations of RawToCuratedProcessor.process for the same raw       *)
(* object, the trigger event having been delivered twice.  The invocations *)
(* share the buckets only: each holds its own batch.  w_puts holds the      *)
(* bodies put under the curated key, in the order of the puts, the curated  *)
(* object being the last of them; w_quarantine does the same for the key in *)
(* the error bucket.                                                        *)

Invocations == {1, 2}

ConcurrentColumnSets ==
    {{"payment_id", "card_number"}, {"payment_id", "dms_timestamp"},
     {"payment_id", "amount"}}

ConcurrentBatches(n) ==
    UNION {{[cols |-> cols, dtypes |-> [c \in cols |-> PaymentDtype(c)],
             rows |-> rs] :
                rs \in SeqsUpTo(RowsOver(cols, PaymentColumnValues), n)} :
           cols \in ConcurrentColumnSets}

\* The table named by the key of the raw object
ConcurrentTable == TableName(Get(extract_metadata_from_key(w_key), "table"))

\* Schema validation is skipped for the table or passes on the batch df
schema_passes(df, table) ==
    \/ DOMAIN get_default_schema(table) = {}
    \/ schema_validate(df, get_default_schema(table)).passed

\* Both validations of process pass on the batch df
validations_pass(df, table) ==
    /\ schema_passes(df, table)
    /\ business_validate(df, table).passed

\* The batches process may hand to write_parquet for the batch df it read:
\* business validation, deduplication when enabled, compliance check and
\* masking when the check fails
process_outputs(df, table, cfg) ==
    LET validated == business_validate_batch(df, table)
        deduplicated == IF cfg.dedup_enabled
                        THEN deduplicate_records(validated, table)
                        ELSE {validated}
    IN  {IF check_compliance(d, cfg).passed THEN d
         ELSE mask_sensitive_fields(d, cfg) : d \in deduplicated}

ConcurrentIdle ==
    /\ w_pc = [i \in Invocations |-> "idle"]
    /\ w_cfg = DefaultConfig
    /\ w_key = <<>>
    /\ w_raw = EmptyBatch
    /\ w_df = [i \in Invocations |-> EmptyBatch]
    /\ w_puts = <<>>
    /\ w_quarantine = <<>>

\* Both invocations are about to run on the same raw object
ConcurrentInit ==
    /\ w_pc = [i \in Invocations |-> "start"]
    /\ w_cfg \in StageConfigs
    /\ w_key = PaymentsKey
    /\ w_raw \in ConcurrentBatches(MaxConcurrentRows)
    /\ w_df = [i \in Invocations |-> EmptyBatch]
    /\ w_puts = <<>>
    /\ w_quarantine = <<>>

\* df = self.s3_client.read_parquet(bucket, key)
InvocationRead(i) ==
    /\ w_pc[i] = "start"
    /\ w_df' = [w_df EXCEPT ![i] = w_raw]
    /\ w_pc' = [w_pc EXCEPT ![i] = "read"]
    /\ UNCHANGED <<w_cfg, w_key, w_raw, w_puts, w_quarantine,
                   mvars, dvars, rvars, svars, notw>>

\* A validation fails: the batch is put under the key of the error bucket
\* and process returns the failed result
InvocationQuarantines(i) ==
    /\ w_pc[i] = "read"
    /\ ~validations_pass(w_df[i], ConcurrentTable)
    /\ w_df' = [w_df EXCEPT ![i] =
                    IF schema_passes(@, ConcurrentTable)
                    THEN business_validate_batch(@, ConcurrentTable) ELSE @]
    /\ w_quarantine' = Append(w_quarantine, w_df'[i])
    /\ w_pc' = [w_pc EXCEPT ![i] = "failed"]
    /\ UNCHANGED <<w_cfg, w_key, w_raw, w_puts,
                   mvars, dvars, rvars, svars, notw>>

\* Both validations pass: deduplication, compliance check and masking
InvocationProcesses(i) ==
    /\ w_pc[i] = "read"
    /\ validations_pass(w_df[i], ConcurrentTable)
    /\ \E df \in process_outputs(w_df[i], ConcurrentTable, w_cfg) :
          w_df' = [w_df EXCEPT ![i] = df]
    /\ w_pc' = [w_pc EXCEPT ![i] = "write"]
    /\ UNCHANGED <<w_cfg, w_key, w_raw, w_puts, w_quarantine,
                   mvars, dvars, rvars, svars, notw>>

\* write_parquet appending the rows to the object already stored
InvocationWrite_appending(i) ==
    /\ w_pc[i] = "write"
    /\ w_puts' = Append(w_puts,
                        IF w_puts = <<>> THEN w_df[i]
                        ELSE [w_df[i] EXCEPT
                                 !.rows = w_puts[Len(w_puts)].rows \o @])
    /\ w_pc' = [w_pc EXCEPT ![i] = "done"]
    /\ UNCHANGED <<w_cfg, w_key, w_raw, w_df, w_quarantine,
                   mvars, dvars, rvars, svars, notw>>

\* write_parquet: one put_object whose body is the whole batch
InvocationWrite(i) ==
    /\ w_pc[i] = "write"
    /\ w_puts' = Append(w_puts, w_df[i])
    /\ w_pc' = [w_pc EXCEPT ![i] = "done"]
    /\ UNCHANGED <<w_cfg, w_key, w_raw, w_df, w_quarantine,
                   mvars, dvars, rvars, svars, notw>>

\* put_object raises: nothing is stored and process re-raises
InvocationWriteFails(i) ==
    /\ w_pc[i] = "write"
    /\ w_pc' = [w_pc EXCEPT ![i] = "raised"]
    /\ UNCHANGED <<w_cfg, w_key, w_raw, w_df, w_puts, w_quarantine,
                   mvars, dvars, rvars, svars, notw>>

ConcurrentNext ==
    \E i \in Invocations :
        \/ InvocationRead(i)
        \/ InvocationQuarantines(i)
        \/ InvocationProcesses(i)
        \/ InvocationWrite(i)
        \/ InvocationWriteFails(i)

----------------------------------------------------------------------------
(* Specifications, continued *)

InitMask == MaskInit /\ DedupIdle /\ RetryIdle /\ StageIdle /\ ResultIdle
    /\ SchemaIdle /\ BusinessIdle
    /\ ProdIdle /\ KeyIdle /\ ComplianceIdle /\ HandlerIdle /\ ConcurrentIdle

SpecMask == InitMask /\ [][MaskNext]_vars

InitDedup == MaskIdle /\ DedupInit /\ RetryIdle /\ StageIdle /\ ResultIdle
    /\ SchemaIdle /\ BusinessIdle
    /\ ProdIdle /\ KeyIdle /\ ComplianceIdle /\ HandlerIdle /\ ConcurrentIdle

SpecDedup == InitDedup /\ [][DedupNext]_vars

InitStage == MaskIdle /\ DedupIdle /\ RetryIdle /\ StageInit /\ ResultIdle
    /\ SchemaIdle /\ BusinessIdle
    /\ ProdIdle /\ KeyIdle /\ ComplianceIdle /\ HandlerIdle /\ ConcurrentIdle

SpecStage == InitStage /\ [][StageNext]_vars

InitRetry == MaskIdle /\ DedupIdle /\ RetryInit /\ StageIdle /\ ResultIdle
    /\ SchemaIdle /\ BusinessIdle
    /\ ProdIdle /\ KeyIdle /\ ComplianceIdle /\ HandlerIdle /\ ConcurrentIdle

SpecRetry == InitRetry /\ [][RetryNext]_vars

InitResult ==
    MaskIdle /\ DedupIdle /\ RetryIdle /\ StageIdle /\ ResultInit
    /\ SchemaIdle /\ BusinessIdle
    /\ ProdIdle /\ KeyIdle /\ ComplianceIdle /\ HandlerIdle /\ ConcurrentIdle

InitSchema ==
    MaskIdle /\ DedupIdle /\ RetryIdle /\ StageIdle /\ ResultIdle
    /\ SchemaInit /\ BusinessIdle
    /\ ProdIdle /\ KeyIdle /\ ComplianceIdle /\ HandlerIdle /\ ConcurrentIdle

SpecSchema == InitSchema /\ [][SchemaNext]_vars

InitBusiness ==
    MaskIdle /\ DedupIdle /\ RetryIdle /\ StageIdle /\ ResultIdle
    /\ SchemaIdle /\ BusinessInit
    /\ ProdIdle /\ KeyIdle /\ ComplianceIdle /\ HandlerIdle /\ ConcurrentIdle

SpecBusiness == InitBusiness /\ [][BusinessNext]_vars

SpecResult == InitResult /\ [][ResultNext]_vars

InitProd ==
    MaskIdle /\ DedupIdle /\ RetryIdle /\ StageIdle /\ ResultIdle
    /\ SchemaIdle /\ BusinessIdle
    /\ ProdInit /\ KeyIdle /\ ComplianceIdle /\ HandlerIdle /\ ConcurrentIdle

SpecProd == InitProd /\ [][ProdNext]_vars

InitKey ==
    MaskIdle /\ DedupIdle /\ RetryIdle /\ StageIdle /\ ResultIdle
    /\ SchemaIdle /\ BusinessIdle
    /\ ProdIdle /\ KeyInit /\ ComplianceIdle /\ HandlerIdle /\ ConcurrentIdle

SpecKey == InitKey /\ [][KeyNext]_vars

InitCompliance ==
    MaskIdle /\ DedupIdle /\ RetryIdle /\ StageIdle /\ ResultIdle
    /\ SchemaIdle /\ BusinessIdle
    /\ ProdIdle /\ KeyIdle /\ ComplianceInit /\ HandlerIdle /\ ConcurrentIdle

SpecCompliance == InitCompliance /\ [][ComplianceNext]_vars

InitHandler ==
    MaskIdle /\ DedupIdle /\ RetryIdle /\ ResultIdle
    /\ SchemaIdle /\ BusinessIdle /\ KeyIdle /\ ComplianceIdle /\ HandlerInit
    /\ ConcurrentIdle

SpecHandler == InitHandler /\ [][HandlerNext]_vars

InitConcurrent ==
    MaskIdle /\ DedupIdle /\ RetryIdle /\ StageIdle /\ ResultIdle
    /\ SchemaIdle /\ BusinessIdle
    /\ ProdIdle /\ KeyIdle /\ ComplianceIdle /\ HandlerIdle /\ ConcurrentInit

SpecConcurrent == InitConcurrent /\ [][ConcurrentNext]_vars

----------------------------------------------------------------------------
(* Properties of deduplication *)

Range(f) == {f[i] : i \in DOMAIN f}

\* The rows of df whose primary key is k
Group(df, pks, k) == {i \in 1..Len(df.rows) : KeyOf(df.rows[i], pks) = k}

KeysIn(df, pks) == {KeyOf(df.rows[i], pks) : i \in 1..Len(df.rows)}

\* The greatest tie-break value of the rows idx of df (missing values do
\* not count; NaT when every value is missing)
MaxTimestamp(df, idx) ==
    LET ts == {df.rows[i][timestamp_col] : i \in idx} \ {NaT}
    IN  IF ts = {} THEN NaT ELSE CHOOSE t \in ts : \A u \in ts : u <= t

HasKeyAndTimestamp ==
    /\ get_primary_keys(d_table) # {}
    /\ get_primary_keys(d_table) \subseteq d_df.cols
    /\ timestamp_col \in d_df.cols

\* C2: for a batch holding the primary-key column and the tie-break column,
\* the output of deduplicate has exactly one row for each primary-key value
\* of the input, and that row carries the greatest tie-break value of the
\* input rows of its key (exactly one row also when that value is shared).
C2_OneRowPerKeyWithMaxTimestamp ==
    (d_pc = "done" /\ HasKeyAndTimestamp) =>
        LET pks == get_primary_keys(d_table)
        IN  \A k \in KeysIn(d_df, pks) :
                /\ Cardinality(Group(d_out, pks, k)) = 1
                /\ \A i \in Group(d_out, pks, k) :
                       d_out.rows[i][timestamp_col]
                           = MaxTimestamp(d_df, Group(d_df, pks, k))

\* Three rows of one key, two of them sharing the greatest timestamp, have
\* been reduced to one row
C2_Witness ==
    /\ d_pc = "done"
    /\ HasKeyAndTimestamp
    /\ Len(d_df.rows) = 3
    /\ Cardinality(KeysIn(d_df, get_primary_keys(d_table))) = 1
    /\ d_df.rows[1][timestamp_col] = 2
    /\ d_df.rows[2][timestamp_col] = 1
    /\ d_df.rows[3][timestamp_col] = 2
    /\ d_df.rows[1] # d_df.rows[3]
    /\ Len(d_out.rows) = 1

\* C3: the output of deduplicate has the same set of primary-key values as
\* the input, each of its rows is a row of the input with every column
\* unchanged, and every input row whose key occurs once is in the output.
C3_KeysAndUniqueRowsPreserved ==
    d_pc = "done" =>
        LET pks == get_primary_keys(d_table) \cap d_df.cols
        IN  /\ d_out.cols = d_df.cols
            /\ KeysIn(d_out, pks) = KeysIn(d_df, pks)
            /\ Range(d_out.rows) \subseteq Range(d_df.rows)
            /\ \A i \in 1..Len(d_df.rows) :
                   Cardinality(Group(d_df, pks, KeyOf(d_df.rows[i], pks))) = 1
                       => d_df.rows[i] \in Range(d_out.rows)

\* A batch with a repeated key and a key that occurs once has lost a row
C3_Witness ==
    /\ d_pc = "done"
    /\ get_primary_keys(d_table) # {}
    /\ get_primary_keys(d_table) \subseteq d_df.cols
    /\ Len(d_df.rows) = 3
    /\ Len(d_out.rows) = 2
    /\ \E i \in 1..3 :
          Cardinality(Group(d_df, get_primary_keys(d_table),
                            KeyOf(d_df.rows[i], get_primary_keys(d_table)))) = 1

\* The positions of the first row of every primary-key value of df
FirstOccurrences(df, pks) ==
    {i \in 1..Len(df.rows) :
        \A j \in Group(df, pks, KeyOf(df.rows[i], pks)) : i <= j}

\* The k-th smallest member of the set of positions idx
Nth(idx, k) == CHOOSE i \in idx : Cardinality({j \in idx : j <= i}) = k

\* C23: when the tie-break column is absent from the batch, deduplicate
\* keeps for every primary-key value the row that comes first in the input,
\* and the kept rows come out in the order they had in the input.
C23_FirstOccurrenceKeptInOrder ==
    (/\ d_pc = "done"
     /\ get_primary_keys(d_table) # {}
     /\ get_primary_keys(d_table) \subseteq d_df.cols
     /\ timestamp_col \notin d_df.cols) =>
        LET firsts == FirstOccurrences(d_df, get_primary_keys(d_table))
        IN  /\ d_out.cols = d_df.cols
            /\ Len(d_out.rows) = Cardinality(firsts)
            /\ \A k \in 1..Len(d_out.rows) :
                   d_out.rows[k] = d_df.rows[Nth(firsts, k)]

\* Three rows without tie-break column, the first key repeated by a
\* different last row: the first two rows are kept
C23_Witness ==
    /\ d_pc = "done"
    /\ d_table = "customers"
    /\ d_df.cols = {"customer_id", "name"}
    /\ Len(d_df.rows) = 3
    /\ d_df.rows[1]["customer_id"] = d_df.rows[3]["customer_id"]
    /\ d_df.rows[1]["customer_id"] # d_df.rows[2]["customer_id"]
    /\ d_df.rows[1]["name"] # d_df.rows[3]["name"]
    /\ d_out.rows = <<d_df.rows[1], d_df.rows[2]>>

\* C24: when the table has no primary key, or a primary-key column is
\* absent from the batch, deduplicate returns the batch unchanged.
C24_NoKeyBatchUnchanged ==
    (/\ d_pc = "done"
     /\ \/ get_primary_keys(d_table) = {}
        \/ get_primary_keys(d_table) \ d_df.cols # {}) =>
        d_out = d_df

\* A customers batch without customer_id, holding the same row twice and
\* the tie-break column, is returned with both rows
C24_Witness ==
    /\ d_pc = "done"
    /\ d_table = "customers"
    /\ d_df.cols = {"dms_timestamp", "name"}
    /\ Len(d_df.rows) >= 2
    /\ d_df.rows[1] = d_df.rows[2]
    /\ d_out = d_df

----------------------------------------------------------------------------
(* Properties of masking *)

\* A value with the card-number shape: 13 to 19 digits once spaces and
\* hyphens are removed
LooksLikeCard(v) ==
    /\ v # Null
    /\ Len(StripSeparators(v)) >= MinCardDigits
    /\ Len(StripSeparators(v)) <= MaxCardDigits
    /\ AllDigits(StripSeparators(v))

\* C4: masking is idempotent: masking a masked batch gives the same batch,
\* column for column and value for value.
C4_MaskIdempotent == m_pc = "twice" => m_twice = m_once

\* A batch with a hyphenated card number and a security-code column has
\* been masked twice, the first masking having changed it
C4_Witness ==
    /\ m_pc = "twice"
    /\ m_cfg.mask_credit_cards
    /\ {"card_number", "cvv"} \subseteq m_df.cols
    /\ \E i \in 1..Len(m_df.rows) : m_df.rows[i]["card_number"] = HyphenCard
    /\ \E i \in 1..Len(m_df.rows) : m_df.rows[i]["card_number"] = MaskedCard
    /\ m_once # m_df

\* C5: after mask, no cell of any column of the output contains the full
\* unmasked card number carried by an input row.
C5_NoFullCardNumberInOutput ==
    (m_pc \in {"once", "twice"} /\ m_cfg.mask_credit_cards) =>
        \A c \in credit_card_columns \cap m_df.cols :
            \A i \in 1..Len(m_df.rows) :
                LooksLikeCard(m_df.rows[i][c]) =>
                    \A c2 \in m_once.cols : \A j \in 1..Len(m_once.rows) :
                        ~Contains(m_once.rows[j][c2], m_df.rows[i][c])

\* C6: mask turns a card-shaped value of a card-number column into a string
\* of the same length, ending in the value's last four characters, every
\* other character being the mask character; other values stay unchanged.
C6_MaskedValueShape ==
    (m_pc \in {"once", "twice"} /\ m_cfg.mask_credit_cards) =>
        \A c \in credit_card_columns \cap m_df.cols :
            \A i \in 1..Len(m_df.rows) :
                LET v == m_df.rows[i][c]
                    w == m_once.rows[i][c]
                IN  IF LooksLikeCard(v)
                    THEN /\ Len(w) = Len(v)
                         /\ LastFour(w) = LastFour(v)
                         /\ \A n \in 1..(Len(w) - 4) : w[n] = MaskChar
                    ELSE w = v

----------------------------------------------------------------------------
(* Properties of retry_with_backoff *)

\* The first k invocations failed with a Transient error
TransientPrefix(k) ==
    /\ Len(r_trace) >= k
    /\ \A i \in 1..k : r_trace[i] = "transient"

Terminated == r_pc \in {"returned", "raised"}

\* C8: when the first k < max_attempts invocations fail with a Transient
\* error and the next one succeeds, retry returns the value of that
\* invocation, which is the (k+1)-th and last one; retry does not stop
\* before it while only Transient errors have been raised.
C8_SucceedsAfterTransientFailures ==
    r_max_retries >= 1 =>
        /\ \A k \in 0..(r_max_retries - 1) :
               (TransientPrefix(k) /\ Len(r_trace) > k /\ r_trace[k + 1] = "ok")
                   => /\ r_pc = "returned"
                      /\ r_result = ReturnValue(k + 1)
                      /\ Len(r_trace) = k + 1
        /\ (Terminated /\ TransientPrefix(Len(r_trace)))
               => Len(r_trace) >= r_max_retries

\* Three Transient failures were followed by a success
C8_Witness ==
    /\ r_max_retries = 4
    /\ r_trace = <<"transient", "transient", "transient", "ok">>
    /\ r_pc = "returned"

\* C9: when every invocation fails with a Transient error, the operation is
\* invoked max_attempts times and no more, and retry then raises the error
\* of the last invocation.
C9_ExhaustionRaisesLastError ==
    (r_max_retries >= 1 /\ TransientPrefix(Len(r_trace))) =>
        /\ Len(r_trace) <= r_max_retries
        /\ Len(r_trace) = r_max_retries
               => /\ r_pc = "raised"
                  /\ r_error = ErrorOf("transient", r_max_retries)
        /\ Terminated => Len(r_trace) = r_max_retries

\* Three attempts were allowed, all three failed and the error was raised
C9_Witness ==
    /\ r_max_retries = 3
    /\ r_trace = <<"transient", "transient", "transient">>
    /\ r_pc = "raised"

\* C10: a Permanent error is propagated at once: the invocation that raised
\* it is the last one, no sleep follows it, and a Permanent error of the
\* first invocation leaves the operation invoked once.
C10_PermanentErrorNotRetried ==
    \A i \in 1..Len(r_trace) :
        r_trace[i] = "permanent" =>
            /\ Len(r_trace) = i
            /\ r_pc = "raised"
            /\ r_error = ErrorOf("permanent", i)
            /\ Len(r_sleeps) = i - 1

\* A Permanent error followed a Transient one, with attempts left
C10_Witness ==
    /\ r_max_retries = 4
    /\ r_trace = <<"transient", "permanent">>
    /\ r_pc = "raised"

\* b to the power n
Pow(b, n) ==
    LET f[k \in 0..n] == IF k = 0 THEN 1 ELSE b * f[k - 1]
    IN  f[n]

\* Every sleep taken so far follows a Transient failure, precedes a further
\* invocation and has the length of the exponential schedule
SleepsBetweenInvocations ==
    /\ Len(r_sleeps) <= Len(r_trace)
    /\ \A i \in 1..Len(r_sleeps) :
           /\ r_trace[i] = "transient"
           /\ r_sleeps[i] = r_initial_delay * Pow(r_backoff_factor, i - 1)
    /\ r_pc = "sleep" =>
           /\ Len(r_sleeps) = Len(r_trace) - 1
           /\ LoopCondition(r_attempt, r_max_retries)
    /\ (r_pc = "loop" /\ Len(r_sleeps) > 0) =>
           /\ Len(r_sleeps) = Len(r_trace)
           /\ LoopCondition(r_attempt, r_max_retries)

----------------------------------------------------------------------------
(* Properties of the Raw->Curated stage *)

\* The objects put into the curated bucket of the run
CuratedWrites ==
    {i \in 1..Len(s_writes) : s_writes[i].bucket = curated_bucket(s_bucket)}

\* C1: a run in which schema validation or business-rule validation has
\* returned passed = false returns a result of status 'failed' and has
\* written nothing to the curated zone.
C1_ValidationFailureWritesNothingCurated ==
    (~s_schema_result.passed \/ ~s_business_result.passed) =>
        /\ s_pc = "done"
        /\ s_result.status = "failed"
        /\ CuratedWrites = {}

\* A batch of two rows failed the business rules and was quarantined
C1_Witness ==
    /\ s_pc = "done"
    /\ ~s_business_result.passed
    /\ Len(s_raw.rows) = 2
    /\ Len(s_writes) = 1
    /\ s_writes[1].bucket = error_bucket(s_bucket)

\* C7: under the default configuration, a batch of at least one row that is
\* written to the curated zone has no security-code column, whatever the
\* values of that column in the input.
C7_NoSecurityCodeColumnWritten ==
    (s_cfg = DefaultConfig /\ Len(s_raw.rows) > 0) =>
        \A i \in CuratedWrites : s_writes[i].df.cols \cap cvv_columns = {}

----------------------------------------------------------------------------
(* Properties of ValidationResult *)

\* C11: after any sequence of add_error, add_warning and add_stat calls on a
\* new ValidationResult, passed is true exactly when errors is empty, and
\* add_warning and add_stat leave passed and errors as they were.
C11_PassedIffNoErrors ==
    /\ [](v_pc = "new" => (v_result.passed <=> v_result.errors = <<>>))
    /\ [][v_last' \in {"add_warning", "add_stat"} =>
              /\ v_result'.passed = v_result.passed
              /\ v_result'.errors = v_result.errors]_vars

\* A warning and a statistic were added after an error, and a result with
\* warnings only is still passed
C11_Witness ==
    /\ v_pc = "new"
    /\ v_last = "add_warning"
    /\ Len(v_result.warnings) = 2
    /\ v_result.stats # {}
    /\ Len(v_result.errors) = 1
    /\ ~v_result.passed

----------------------------------------------------------------------------
(* Properties of the schema validator *)

\* The columns for which the schema declares a constraint of the kind
Declared(schema, kind) ==
    IF kind \in DOMAIN schema THEN DOMAIN schema[kind] ELSE {}

\* The number held by a cell: the cell of a numeric column, or the decimal
\* an object prints as
NumberOf(df, c, v) ==
    IF df.dtypes[c] # "object" THEN v
    ELSE IF v[1] = "-" THEN 0 - DigitValue(v[2])
    ELSE DigitValue(v[1])

MissingColumn(df, schema) ==
    /\ "columns" \in DOMAIN schema
    /\ Range(schema.columns) \ df.cols # {}

WrongType(df, schema) ==
    \E c \in Declared(schema, "types") \cap df.cols :
        ~types_compatible(df.dtypes[c], schema.types[c])

NonNullableNull(df, schema) ==
    \E c \in Declared(schema, "nullable") \cap df.cols :
        /\ ~schema.nullable[c]
        /\ \E i \in 1..Len(df.rows) : isnull(df, c, df.rows[i][c])

\* A value below the declared min or above the declared max, in a column
\* of one of the dtypes
OutOfRange(df, schema, dtypes) ==
    \E c \in Declared(schema, "ranges") \cap df.cols :
        /\ df.dtypes[c] \in dtypes
        /\ \E i \in 1..Len(df.rows) :
              LET v == df.rows[i][c]
                  spec == schema.ranges[c]
              IN  /\ ~isnull(df, c, v)
                  /\ \/ "min" \in DOMAIN spec /\ NumberOf(df, c, v) < spec.min
                     \/ "max" \in DOMAIN spec /\ NumberOf(df, c, v) > spec.max

FormatMismatch(df, schema) ==
    \E c \in Declared(schema, "formats") \cap df.cols :
        \E i \in 1..Len(df.rows) :
            /\ ~isnull(df, c, df.rows[i][c])
            /\ ~email_pattern_match(df.rows[i][c])

SchemaViolation(df, schema, dtypes) ==
    \/ MissingColumn(df, schema)
    \/ WrongType(df, schema)
    \/ NonNullableNull(df, schema)
    \/ OutOfRange(df, schema, dtypes)
    \/ FormatMismatch(df, schema)

----------------------------------------------------------------------------
(* Properties of the business-rule validator *)

KnownTables == {"orders", "order_items", "inventory", "products", "payments"}

\* A row of df satisfies P, which reads the columns needs
SomeRow(df, needs, P(_)) ==
    /\ needs \subseteq df.cols
    /\ \E i \in 1..Len(df.rows) : Known(df.rows[i], needs) /\ P(df.rows[i])

\* A row of the batch violates an error-level rule of the table
BusinessViolation(df, table_name) ==
    CASE table_name = "orders" ->
            \/ SomeRow(df, {"total"}, LAMBDA r : r["total"] < 0)
            \/ SomeRow(df, {"subtotal", "tax", "shipping_cost", "total"},
                       LAMBDA r : Abs(r["subtotal"] + r["tax"]
                                      + r["shipping_cost"] - r["total"])
                                  > Tolerance)
            \/ SomeRow(df, {"order_total", "item_total"},
                       LAMBDA r : Abs(r["order_total"] - r["item_total"])
                                  > Tolerance)
      [] table_name = "products" ->
            \/ SomeRow(df, {"price"}, LAMBDA r : r["price"] <= 0)
            \/ SomeRow(df, {"weight"}, LAMBDA r : r["weight"] < 0)
      [] table_name = "payments" ->
            SomeRow(df, {"amount"}, LAMBDA r : r["amount"] <= 0)
      [] OTHER -> FALSE

\* C13: for a batch of a known table in which a row violates an error-level
\* business rule of the table (for orders, also a row whose order_total
\* differs from its item_total by more than the tolerance), validate returns
\* passed = false with a non-empty error list.
C13_BusinessViolationsFail ==
    (b_pc = "done" /\ b_table \in KnownTables
        /\ BusinessViolation(b_df, b_table)) =>
            ~b_result.passed /\ b_result.errors # <<>>

----------------------------------------------------------------------------
(* Properties of the Raw->Curated stage: compliance and quarantine *)

\* C14: a run whose read succeeded and whose schema and business-rule
\* validations passed goes from the compliance check to the write whatever
\* the check reports, and when it returns it returns status 'success' having
\* written one batch, to the curated zone.
C14_ComplianceNeverBlocks ==
    /\ []((s_pc = "done" /\ s_schema_result.passed
              /\ s_business_result.passed) =>
            /\ s_result.status = "success"
            /\ Len(s_writes) = 1
            /\ CuratedWrites = {1})
    /\ [][s_pc = "compliance" => s_pc' = "write"]_vars
    /\ [][(s_pc = "write" /\ s_pc' = "done") =>
              /\ s_result'.status = "success"
              /\ s_writes' = Append(s_writes,
                                    PutObject(curated_bucket(s_bucket),
                                              curated_key(s_metadata), s_df))]_vars

\* A batch with security-code data and an unmasked card number failed the
\* compliance check and was written to the curated zone all the same
C14_Witness ==
    /\ s_pc = "done"
    /\ s_result.status = "success"
    /\ ~s_compliance_result.passed
    /\ Len(s_compliance_result.errors) >= 2
    /\ CuratedWrites = {1}

\* The steps of process, as pairs of positions
StageSteps ==
    {<<"start", "schema">>, <<"start", "raised">>, <<"schema", "business">>,
     <<"schema", "done">>, <<"business", "dedup">>, <<"business", "done">>,
     <<"dedup", "compliance">>, <<"compliance", "write">>,
     <<"write", "done">>, <<"write", "raised">>}

\* The batch of the run once both validations have returned
ValidatedBatch == business_validate_batch(s_raw, StageTable)

\* What the compliance step makes of the batch df
ComplianceOutput(df) ==
    IF check_compliance(df, s_cfg).passed THEN df
    ELSE mask_sensitive_fields(df, s_cfg)

\* The steps are taken in order, each validation having passed before the
\* next step, and the curated zone is written by the write step only
StepsInOrder ==
    /\ s_pc' # s_pc => <<s_pc, s_pc'>> \in StageSteps
    /\ s_pc' = "business" =>
           \/ DOMAIN get_default_schema(StageTable) = {}
           \/ /\ s_schema_result' =
                     schema_validate(s_df, get_default_schema(StageTable))
              /\ s_schema_result'.passed
    /\ s_pc' = "dedup" =>
           /\ s_business_result' = business_validate(s_df, StageTable)
           /\ s_business_result'.passed
    /\ (s_pc' = "done" /\ s_pc \in {"schema", "business"}) =>
           /\ ~(s_schema_result'.passed /\ s_business_result'.passed)
           /\ \A i \in 1..Len(s_writes') :
                  s_writes'[i].bucket # curated_bucket(s_bucket)
    /\ (s_pc = "write" /\ s_pc' = "done") =>
           s_writes' = Append(s_writes, PutObject(curated_bucket(s_bucket),
                                                  curated_key(s_metadata), s_df))

\* The batch handed from step to step, deduplicated holding the batches the
\* deduplication step may hand on
BatchHandedOn(deduplicated) ==
    /\ s_pc = "compliance" => s_df \in deduplicated
    /\ s_pc = "write" => \E df \in deduplicated : s_df = ComplianceOutput(df)
    /\ Cardinality(CuratedWrites) <= 1
    /\ \A i \in CuratedWrites :
           /\ s_pc = "done"
           /\ s_writes[i].df = s_df
           /\ \E df \in deduplicated : s_writes[i].df = ComplianceOutput(df)

\* C26 as stated: in every run the steps occur in the order Read,
\* SchemaValidate, BusinessRuleValidate, Deduplicate, ComplianceCheck/Mask,
\* Write; business validation runs after schema validation passed or was
\* skipped, deduplication after both passed, the compliance step works on
\* the deduplicated batch, its output is the batch written, and at most one
\* curated write happens.
C26_StepsInOrderOnDeduplicatedBatch ==
    /\ [][StepsInOrder]_vars
    /\ [](s_pc \in {"compliance", "write", "done"} =>
              BatchHandedOn(deduplicate_records(ValidatedBatch, StageTable)))

\* C26 amended: the steps occur in that order, the Deduplicate step being
\* taken when deduplication is enabled (the default) and skipped otherwise;
\* the compliance step works on the deduplicated batch when deduplication is
\* enabled and on the validated batch when it is not, its output is the
\* batch written, and at most one curated write happens.
C26_StepsInOrderDedupWhenEnabled ==
    /\ [][StepsInOrder]_vars
    /\ [](s_pc \in {"compliance", "write", "done"} =>
              BatchHandedOn(IF s_cfg.dedup_enabled
                            THEN deduplicate_records(ValidatedBatch, StageTable)
                            ELSE {ValidatedBatch}))

\* A run that removed a duplicate, masked the remaining row and wrote it
C26_Witness ==
    /\ s_pc = "done"
    /\ s_cfg.dedup_enabled
    /\ s_dedup_count = 1
    /\ ~s_compliance_result.passed
    /\ CuratedWrites = {1}
    /\ Len(s_writes[1].df.rows) = 1
    /\ s_writes[1].df.rows[1]["card_number"] # s_raw.rows[1]["card_number"]

\* C27: validation never modifies the batch it is given: after validate
\* has returned, for every table, the caller's batch has the columns, the
\* column types and the values it had before the call.
C27_ValidationLeavesBatchUnchanged ==
    b_pc = "done" =>
        /\ b_after.cols = b_df.cols
        /\ b_after.dtypes = b_df.dtypes
        /\ b_after.rows = b_df.rows

----------------------------------------------------------------------------
(* Properties of the Curated->Prod stage *)

\* C15: whatever start_crawler does (it starts the crawler, the crawler is
\* already running, it is not found, or any other error), a run whose prod
\* write succeeded returns status 'success'; and the crawler is triggered
\* only after the prod write of the run has completed: never before it, and
\* never in a run whose write failed (so there are never more crawler
\* calls than completed prod writes).
C15_CatalogRefreshNeverFails ==
    /\ [][p_pc = "crawler" =>
            (p_pc' = "done" /\ p_result'.status = "success")]_vars
    /\ [](Len(p_glue) <= Len(p_writes))
    /\ [][p_glue' # p_glue => p_pc = "crawler"]_vars

\* Two runs have completed although start_crawler raised an unexpected
\* error in the first and found no crawler in the second
C15_Witness ==
    /\ p_pc = "done"
    /\ p_run = 2
    /\ Len(p_writes) = 2
    /\ Len(p_glue) = 2
    /\ p_glue[1].outcome = "Exception"
    /\ p_glue[2].outcome = "EntityNotFoundException"
    /\ p_result.status = "success"

\* C16: two runs of a stage on the same object, at any two times, write the
\* same batch to the same bucket and key.  Stated here for the
\* Curated->Prod stage: all the objects the runs on one curated object
\* have written are equal.
C16_RerunsWriteTheSameObject ==
    \A i, j \in DOMAIN p_writes : p_writes[i] = p_writes[j]

----------------------------------------------------------------------------
(* Properties of the quarantine of the Raw->Curated stage *)

\* The objects written to the error bucket
QuarantineWrites ==
    {i \in DOMAIN s_writes : s_writes[i].bucket = error_bucket(s_bucket)}

\* C17: whenever a validation fails, the batch exactly as it was read has
\* been written to the error bucket by the time the stage returns the
\* failed result.  (The claim also wants the Validation Result in the
\* record; the formula asks for the batch only.)
C17_QuarantineHoldsBatchAsRead ==
    (s_pc = "done" /\ s_result.status = "failed") =>
        \E i \in QuarantineWrites : s_writes[i].df = s_raw

\* The key with its zone segment, the piece after the hyphen of
\* {table}-{zone}, replaced
ZoneReplaced(key, zone) ==
    [k \in DOMAIN key |->
        IF k > 1 /\ key[k - 1] = "-" /\ key[k] \in {"raw", "curated", "prod"}
        THEN zone ELSE key[k]]

\* C18 as stated: the object of a failed run is written to the input path
\* with its zone replaced by the errors zone, in the bucket name and in the
\* key, every other component unchanged.
C18_QuarantinePathReplacesZone ==
    (s_pc = "done" /\ s_result.status = "failed") =>
        \A i \in DOMAIN s_writes :
            /\ s_writes[i].bucket = <<"ecommerce", "-errors-", "123">>
            /\ s_writes[i].key = ZoneReplaced(s_key, "errors")

\* C18, amended: the object of a failed run is written to the bucket whose
\* name is the input bucket's with '-raw-' replaced by '-errors-', under
\* the key 'validation-failures/' followed by the whole input key, whose
\* own zone segment is left as it is.
C18_QuarantinePathPrefixesKey ==
    (s_pc = "done" /\ s_result.status = "failed") =>
        \A i \in DOMAIN s_writes :
            /\ s_writes[i].bucket = <<"ecommerce", "-errors-", "123">>
            /\ s_writes[i].key = <<"validation-failures", "/">> \o s_key

\* A products batch has failed schema validation and has been written to
\* the error bucket
C18_Witness ==
    /\ s_pc = "done"
    /\ s_result.status = "failed"
    /\ s_result.reason = "schema_validation_failed"
    /\ s_key = ProductsKey
    /\ Len(s_writes) = 1
    /\ s_writes[1].key[1] = "validation-failures"
    /\ s_writes[1].key[5] = "products"
    /\ s_writes[1].key[7] = "raw"

----------------------------------------------------------------------------
(* Properties of the keys *)

\* C19: from a key {schema}/{table}-{zone}/year={yyyy}/month={mm}/day={dd}/
\* {filename}, extract_metadata_from_key recovers the schema, the table,
\* the zone, the year, the month, the day and the file name, and
\* construct_target_key, given what was recovered and a target zone,
\* returns the key with only its zone replaced.
C19_KeyRoundTrip ==
    k_pc = "done" =>
        /\ k_metadata["schema"] = k_fields.schema
        /\ Get(k_metadata, "table") = k_fields.table
        /\ Get(k_metadata, "type") = k_fields.zone
        /\ k_metadata["year"] = k_fields.year
        /\ k_metadata["month"] = k_fields.month
        /\ k_metadata["day"] = k_fields.day
        /\ k_metadata["filename"] = k_fields.filename
        /\ k_target = ObjectKey(k_fields.schema, k_fields.table,
                                <<k_fields.target>>, k_fields.year,
                                k_fields.month, k_fields.day,
                                k_fields.filename)

----------------------------------------------------------------------------
(* Properties of the remote calls of the Raw->Curated stage *)

\* C20: when process raises because a remote read or write failed with a
\* transient error, that call had already failed transiently at least
\* once before: the call was retried before the stage failed.
C20_TransientFailureRetried ==
    (s_pc = "raised" /\ s_io[Len(s_io)].outcome = "TransientError") =>
        \E i \in 1..(Len(s_io) - 1) :
            /\ s_io[i].op = s_io[Len(s_io)].op
            /\ s_io[i].bucket = s_io[Len(s_io)].bucket
            /\ s_io[i].outcome = "TransientError"

----------------------------------------------------------------------------
(* Properties of the compliance check *)

\* A leading run of mask characters followed by exactly four digits
MaskedForm(s) ==
    /\ Len(s) > 4
    /\ \A i \in 1..(Len(s) - 4) : s[i] \in {"*", "X"}
    /\ \A i \in (Len(s) - 3)..Len(s) : s[i] \in DigitChars

\* After removing spaces and hyphens, 13 to 19 contiguous digits, not masked
UnmaskedCardValue(v) ==
    /\ v # Null
    /\ Len(StripSeparators(v)) >= MinCardDigits
    /\ Len(StripSeparators(v)) <= MaxCardDigits
    /\ AllDigits(StripSeparators(v))
    /\ ~MaskedForm(StripSeparators(v))

UnmaskedRows(df, col) ==
    {i \in 1..Len(df.rows) : UnmaskedCardValue(df.rows[i][col])}

PciViolation(df) ==
    \/ \E col \in credit_card_columns \cap df.cols : UnmaskedRows(df, col) # {}
    \/ \E col \in cvv_columns \cap df.cols :
           \E i \in 1..Len(df.rows) : df.rows[i][col] # Null

pii_alias_columns ==
    {"ssn", "social_security_number", "drivers_license", "tax_id",
     "customer_phone", "customer_email"}

HasWarning(result, col) ==
    \E k \in 1..Len(result.warnings) : result.warnings[k] = <<"contains PII", col>>

\* C22: for a batch with a column of a known PII alias (national ID,
\* driver's license, tax ID, phone, email) holding a non-null value, the
\* compliance check records a warning for that column and does not set
\* passed to false because of it.
C22_PiiColumnWarned ==
    c_pc = "done" =>
        /\ \A col \in pii_alias_columns \cap c_df.cols :
               NonNullCount(c_df, col) > 0 => HasWarning(c_result, col)
        /\ c_result.passed = FALSE =>
               (c_cfg.pci_dss_enabled /\ PciViolation(c_df))

----------------------------------------------------------------------------
(* Properties of lambda_handler *)

\* An exception was raised inside the try block of lambda_handler
ExceptionRaised ==
    \/ parse_s3_event_raises(h_event)
    \/ determine_processing_type_raises(parse_s3_event(h_event).bucket)
    \/ h_type = "raw-to-curated" /\ s_pc = "raised"
    \/ h_type = "curated-to-prod" /\ p_pc = "raised"

\* C29: lambda_handler returns statusCode 500 exactly when an exception was
\* raised (the event cannot be parsed, the bucket is of neither kind, the
\* processor raised) and statusCode 200 otherwise; a Raw->Curated run that
\* returned status 'failed' is answered with statusCode 200 carrying that
\* result.
C29_ErrorStatusIffException ==
    h_pc = "done" =>
        /\ h_response.statusCode = (IF ExceptionRaised THEN 500 ELSE 200)
        /\ (h_type = "raw-to-curated" /\ s_pc = "done") =>
               /\ h_response.statusCode = 200
               /\ h_response.result.status = s_result.status
               /\ h_response.result = s_result
        /\ (h_type = "curated-to-prod" /\ p_pc = "done") =>
               h_response.result = p_result

\* A run whose business-rule validation failed was answered with 200
C29_Witness ==
    /\ h_pc = "done"
    /\ h_type = "raw-to-curated"
    /\ s_pc = "done"
    /\ s_result.status = "failed"
    /\ ~s_business_result.passed
    /\ h_response.statusCode = 200

----------------------------------------------------------------------------
(* Properties of concurrent invocations *)

\* The batches one invocation alone may write for the raw object
SingleInvocationOutputs == process_outputs(w_raw, ConcurrentTable, w_cfg)

\* C28: for any interleaving of two Raw->Curated invocations on the same raw
\* object, each curated write replaces the whole object by the whole batch
\* of the writing invocation, the curated object is at no moment anything
\* but the complete output of one invocation, and the final curated object
\* is an output of a single invocation on that raw object.
C28_ConcurrentWritesReplaceWholeObject ==
    /\ [](\A k \in 1..Len(w_puts) : w_puts[k] \in SingleInvocationOutputs)
    /\ []((\A i \in Invocations : w_pc[i] = "done") =>
              /\ Len(w_puts) = 2
              /\ w_puts[Len(w_puts)] \in SingleInvocationOutputs
              /\ \E i \in Invocations : w_puts[Len(w_puts)] = w_df[i])
    /\ [][w_puts' # w_puts =>
              \E i \in Invocations :
                  /\ w_pc[i] = "write"
                  /\ w_puts' = Append(w_puts, w_df[i])]_vars

\* Both invocations have written, the second write having replaced an
\* object with the same rows in another order
C28_Witness ==
    /\ \A i \in Invocations : w_pc[i] = "done"
    /\ Len(w_puts) = 2
    /\ w_puts[1] # w_puts[2]
    /\ Len(w_puts[2].rows) = 2
    /\ Len(w_raw.rows) = 2

====
